---- MODULE Spec2Model ----
(***************************************************************************)
(* Model of the streaming (tailing) viewer of az-fileshare-viewer:         *)
(* displayFile -> displayContentWithStreaming in                           *)
(* src/src/commands/displayFile.js.                                        *)
(*                                                                         *)
(* The remote file is a sequence of bytes that an outside writer appends   *)
(* to or truncates.  Every firing of the setInterval callback is one poll  *)
(* cycle; a cycle is an async function, so it is a small process of its    *)
(* own with the positions                                                  *)
(*   "props"    awaiting fileClient.getProperties          (line 458)      *)
(*   "download" awaiting fileClient.download + the stream  (lines 466-471) *)
(*   "requery"  awaiting getProperties in the catch block  (line 505)      *)
(* A remote call is answered and its continuation run in one step.         *)
(* Wall-clock strings in the widget lines (toLocaleTimeString) are left    *)
(* out of the line records; everything else of a line is kept.             *)
(***************************************************************************)
EXTENDS Integers, Sequences, FiniteSets, TLC

\* ------------------------------------------------------------------ bounds
MaxTicks == 2
MaxEnvEvents == 3
\* displayFile calls nested by refresh and switch-to-stream, and tailing
\* sessions started, that one exploration follows.
MaxDepth == 3
MaxSessions == 2
\* Entries in one directory listing.
MaxFiles == 3
\* Copies of one line at the head of a file on display.
MaxRun == 4
\* Accounts in the configuration file.
MaxAccounts == 2
\* Clients built in one run of the program.
MaxClients == 3
\* Lines of a file that is searched.
MaxLines == 3
\* Segments of the path of a directory that is browsed.
MaxPath == 4

\* ------------------------------------------------------------------ bytes
\* Bytes are named by tokens: "x" an ASCII letter, "nl" the byte 0x0A,
\* "C3" "A9" the two bytes of the UTF-8 encoding of U+00E9.  The program
\* that writes the remote file is one of two loggers: "ascii" writes the
\* lines "xx", "utf8" writes the line "\u00e9" and then lines "xx".  The byte
\* a logger writes at (1-based) position p of the file is WrittenByte.
Writers == {"ascii", "utf8"}

WrittenByte(w, p) ==
  IF w = "utf8" /\ p = 1 THEN "C3"
  ELSE IF w = "utf8" /\ p = 2 THEN "A9"
  ELSE IF p % 3 = 0 THEN "nl"
  ELSE "x"

Min(a, b) == IF a < b THEN a ELSE b

\* Buffer.toString(): UTF-8 decoding into UTF-16 code units.  A well formed
\* two-byte sequence gives one code unit, a byte that cannot be decoded gives
\* one U+FFFD ("fffd").
RECURSIVE BufferToString(_)
BufferToString(b) ==
  IF b = <<>> THEN <<>>
  ELSE IF Head(b) = "x" THEN <<"x">> \o BufferToString(Tail(b))
  ELSE IF Head(b) = "nl" THEN <<"\n">> \o BufferToString(Tail(b))
  ELSE IF Head(b) = "C3" /\ Len(b) >= 2 /\ b[2] = "A9"
       THEN <<"e9">> \o BufferToString(Tail(Tail(b)))
  ELSE <<"fffd">> \o BufferToString(Tail(b))

\* String.prototype.split('\n'): the pieces between line feeds, in order; the
\* empty string splits into one empty piece.  Each piece is kept with the
\* index `at` of its first code unit in the string that was split.
RECURSIVE SplitLines(_, _, _, _)
SplitLines(s, k, cur, at) ==
  IF k > Len(s) THEN <<[text |-> cur, at |-> at]>>
  ELSE IF s[k] = "\n"
       THEN <<[text |-> cur, at |-> at]>> \o SplitLines(s, k + 1, <<>>, k)
  ELSE SplitLines(s, k + 1, Append(cur, s[k]), at)

Split(s) == SplitLines(s, 1, <<>>, 0)

\* line.trim(): white space is removed from both ends.
IsWhiteSpace(c) == c \in {"\n", " "}

RECURSIVE TrimStart(_)
TrimStart(s) ==
  IF s # <<>> /\ IsWhiteSpace(Head(s)) THEN TrimStart(Tail(s)) ELSE s

RECURSIVE TrimEnd(_)
TrimEnd(s) ==
  IF s # <<>> /\ IsWhiteSpace(s[Len(s)])
  THEN TrimEnd(SubSeq(s, 1, Len(s) - 1)) ELSE s

Trim(line) == TrimEnd(TrimStart(line))

\* error.message.includes('range specified is invalid')
RangeInvalidMsg == "The range specified is invalid for the current size of the resource."
TransientMsg == "socket hang up"
ErrorMessages == {RangeInvalidMsg, TransientMsg}
IsRangeInvalid(msg) == msg = RangeInvalidMsg

\* ------------------------------------------------------------------ state
VARIABLES
  writer,       \* which logger writes the remote file
  remote,       \* bytes of the remote file
  envEvents,    \* appends, truncations and rejected remote calls so far
  phase,        \* "loading" | "streaming" | "stopped"
  buffer,       \* Buffer.concat(chunks) of the initial download
  view,         \* lines added to logWidget
  isPaused,
  currentSize,
  timerActive,  \* streamingInterval is set and not cleared
  ticks,        \* number of timer callbacks fired
  polls,        \* the callback invocations, by tick number
  resyncs,      \* number of position resets performed
  completions,  \* how often the awaiting displayFile was resumed
  navAt,        \* where the user is: "browse" | "group" | "loading" | "pager"
                \*                    | "stream" | "failed"
  navFrom,      \* the menu that called displayFile: "browse" | "group"
  streamMode,   \* streamMode of the running displayFile call, as it is after line 50
  streamRequested, \* streamMode as the caller of displayFile passed it
  canStream,    \* isLogFile(fileContent, filePath) of the file on display
  depth,        \* displayFile calls on the stack
  timers,       \* streaming intervals set and not cleared, by session number
  sessions,     \* displayContentWithStreaming calls so far
  items,        \* the listing listFiles returned, in its order
  fileGroups,   \* rotation groups by base name, each sorted
  nonGroupedItems,
  menuAt,       \* "start" | "list" | "group"
  choices,      \* the entries of the directory menu, in menu order
  group,        \* the group browseFileGroup was called with
  mostRecentFile, \* the file behind the 'Stream real-time' entry
  content,      \* the text displayContentInPager was called with
  fileName,     \* the name it was called with
  detected,     \* isJson and isLog as displayContentInPager computed them
  fileType,     \* "none" | "JSON" | "LOG" | "TEXT" | "raised"
  formattedLines, \* the lines loaded into the pager's widget
  searchMode,   \* the search box of the viewer is open
  searchText,   \* the text of the last search submitted
  searchMatches, \* indices of the lines the last search found
  config,       \* the configuration object of utils/config.js
  exited,       \* process.exit was called
  switched,     \* the last switchAccount call: its argument and what it returned
  fileServiceClients, \* the client cache, by account name
  clientsBuilt, \* ShareServiceClient objects constructed so far
  lastCall,      \* the latest getFileServiceClient call and its outcome
  shareBrowser, \* the module whose browseShareContents is open, or "none"
  directory     \* the directory it shows, as its path segments

\* The navigation state; it is at rest while one tailing session is studied.
navVars == <<navAt, navFrom, streamMode, streamRequested, canStream, depth,
            timers, sessions>>

\* The state of one tailing session.
sessionVars == <<writer, remote, envEvents, phase, buffer, view, isPaused,
                 currentSize, timerActive, ticks, polls, resyncs, completions>>

\* The directory menu; it is at rest while a file is on display.
groupVars == <<items, fileGroups, nonGroupedItems, choices, menuAt, group,
               mostRecentFile>>

\* The static viewer; it is at rest while no file is on display.
pagerVars == <<content, fileName, detected, fileType, formattedLines,
              searchMode, searchText, searchMatches>>

\* The configuration and the client cache of services/azureFileService.js.
cacheVars == <<config, exited, switched, fileServiceClients, clientsBuilt,
              lastCall>>

\* The directory view of a share.
dirVars == <<shareBrowser, directory>>

vars == <<writer, remote, envEvents, phase, buffer, view, isPaused, currentSize,
          timerActive, ticks, polls, resyncs, completions, navVars, groupVars, pagerVars, cacheVars, dirVars>>

PollIds == 1..MaxTicks

IdlePoll ==
  [stage |-> "idle", fileSize |-> 0, off |-> 0, cnt |-> 0, epoch |-> 0,
   got |-> 0, err |-> "none", requeried |-> FALSE, resynced |-> FALSE]

WidgetLine(kind, cycle, text, n, msg) ==
  [kind |-> kind, cycle |-> cycle, text |-> text, n |-> n, msg |-> msg]

\* logWidget.add(highlightLogLine(line)) for each piece of a split, in order.
\* `n` of a content line is the offset of its first code unit, counted from
\* the start of the file as the viewer counts it.
RECURSIVE ContentLines(_, _, _)
ContentLines(cycle, base, pieces) ==
  IF pieces = <<>> THEN <<>>
  ELSE <<WidgetLine("content", cycle, Head(pieces).text,
                    base + Head(pieces).at, "")>>
       \o ContentLines(cycle, base, Tail(pieces))

\* if (line.trim()) { ... }
RECURSIVE NonBlank(_)
NonBlank(pieces) ==
  IF pieces = <<>> THEN <<>>
  ELSE IF Trim(Head(pieces).text) # <<>>
       THEN <<Head(pieces)>> \o NonBlank(Tail(pieces))
       ELSE NonBlank(Tail(pieces))

Init ==
  /\ writer \in Writers
  /\ remote = <<>>
  /\ envEvents = 0
  /\ phase = "loading"
  /\ buffer = <<>>
  /\ view = <<>>
  /\ isPaused = FALSE
  /\ currentSize = 0
  /\ timerActive = FALSE
  /\ ticks = 0
  /\ polls = [i \in PollIds |-> IdlePoll]
  /\ resyncs = 0
  /\ completions = 0
  /\ navAt = "browse"
  /\ navFrom = "browse"
  /\ streamMode = FALSE
  /\ streamRequested = FALSE
  /\ canStream = FALSE
  /\ depth = 0
  /\ timers = {}
  /\ sessions = 0
  /\ items = <<>>
  /\ fileGroups = <<>>
  /\ nonGroupedItems = <<>>
  /\ choices = <<>>
  /\ menuAt = "start"
  /\ group = <<>>
  /\ mostRecentFile = <<>>
  /\ content = <<>>
  /\ fileName = <<>>
  /\ detected = [isJson |-> FALSE, isLog |-> FALSE]
  /\ fileType = "none"
  /\ formattedLines = <<>>
  /\ searchMode = FALSE
  /\ searchText = <<>>
  /\ searchMatches = <<>>
  /\ config = [currentAccount |-> "", accounts |-> <<>>]
  /\ exited = FALSE
  /\ switched = [accountName |-> "", result |-> FALSE]
  /\ shareBrowser = "none"
  /\ directory = <<>>
  /\ fileServiceClients = <<>>
  /\ clientsBuilt = 0
  /\ lastCall = [noCache |-> FALSE, outcome |-> "none",
                  client |-> [id |-> 0, accountName |-> "", accountKey |-> ""]]

\* ------------------------------------------------------------ the writer
RemoteAppend ==
  /\ envEvents < MaxEnvEvents
  /\ envEvents' = envEvents + 1
  /\ remote' = Append(remote, WrittenByte(writer, Len(remote) + 1))
  /\ UNCHANGED <<writer, phase, buffer, view, isPaused, currentSize,
                 timerActive, ticks, polls, resyncs,
                 completions, navVars, groupVars, pagerVars, cacheVars, dirVars>>

RemoteTruncate ==
  /\ envEvents < MaxEnvEvents
  /\ envEvents' = envEvents + 1
  /\ \E n \in 0..(Len(remote) - 1) : remote' = SubSeq(remote, 1, n)
  /\ UNCHANGED <<writer, phase, buffer, view, isPaused, currentSize,
                 timerActive, ticks, polls, resyncs,
                 completions, navVars, groupVars, pagerVars, cacheVars, dirVars>>

\* ------------------------------------------------------------ the viewer
\* displayFile(shareName, filePath, true) for a log file: the whole file is
\* downloaded, decoded and handed to displayContentWithStreaming, which
\* fills the widget, seeds its state and starts the timer.
StartStreaming ==
  /\ phase = "loading"
  /\ buffer' = remote
  /\ view' = ContentLines(0, 0, Split(BufferToString(remote)))
  /\ isPaused' = FALSE
  /\ currentSize' = Len(BufferToString(remote))
  /\ timerActive' = TRUE
  /\ phase' = "streaming"
  /\ UNCHANGED <<writer, remote, envEvents, ticks, polls, resyncs,
                 completions, navVars, groupVars, pagerVars, cacheVars, dirVars>>

\* TogglePause as it would be if pausing cleared the interval and resuming
\* did not set it again.
TogglePauseClearsTimer ==
  /\ phase = "streaming"
  /\ isPaused' = ~isPaused
  /\ timerActive' = FALSE
  /\ UNCHANGED <<writer, remote, envEvents, phase, buffer, view, currentSize,
                 ticks, polls, resyncs,
                 completions, navVars, groupVars, pagerVars, cacheVars, dirVars>>

\* screen.key(['space'])
TogglePause ==
  /\ phase = "streaming"
  /\ isPaused' = ~isPaused
  /\ UNCHANGED <<writer, remote, envEvents, phase, buffer, view, currentSize,
                 timerActive, ticks, polls, resyncs,
                 completions, navVars, groupVars, pagerVars, cacheVars, dirVars>>

\* What the quit key handlers read and write.
Session ==
  [timerActive |-> timerActive, phase |-> phase, completions |-> completions,
   view |-> view, currentSize |-> currentSize, isPaused |-> isPaused]

\* The first handler of ['q', 'escape'] (lines 444-447): clearInterval and
\* screen.destroy.
QuitHandler(s) ==
  [s EXCEPT !.timerActive = FALSE, !.phase = "stopped"]

\* The second handler as it would be if completion were signalled by calling
\* a callback in place of resolving a promise.
QuitAndCallBack(s) ==
  [s EXCEPT !.timerActive = FALSE, !.phase = "stopped",
            !.completions = @ + 1]

\* The second handler of ['q', 'escape'] (lines 519-523): clearInterval,
\* screen.destroy and resolve; resolving a promise that is already resolved
\* does nothing, so the caller that awaits it is resumed once.
QuitAndResolve(s) ==
  [s EXCEPT !.timerActive = FALSE, !.phase = "stopped",
            !.completions = IF @ = 0 THEN 1 ELSE @]

\* Quit as it would be if the handlers destroyed the screen without clearing
\* the interval.
QuitKeepsTimer ==
  /\ phase \in {"streaming", "stopped"}
  /\ LET s == QuitAndResolve(QuitHandler(Session)) IN
       /\ timerActive' = timerActive
       /\ phase' = s.phase
       /\ completions' = s.completions
       /\ view' = s.view
       /\ currentSize' = s.currentSize
       /\ isPaused' = s.isPaused
  /\ UNCHANGED <<writer, remote, envEvents, buffer, ticks, polls, resyncs,
                 navVars, groupVars, pagerVars, cacheVars, dirVars>>

\* The q or escape key: both registered handlers run, in the order of their
\* registration.  The key is handled in the same way when it is pressed once
\* more after the session has stopped.
Quit ==
  /\ phase \in {"streaming", "stopped"}
  /\ LET s == QuitAndResolve(QuitHandler(Session)) IN
       /\ timerActive' = s.timerActive
       /\ phase' = s.phase
       /\ completions' = s.completions
       /\ view' = s.view
       /\ currentSize' = s.currentSize
       /\ isPaused' = s.isPaused
  /\ UNCHANGED <<writer, remote, envEvents, buffer, ticks, polls, resyncs,
                 navVars, groupVars, pagerVars, cacheVars, dirVars>>

\* Tick as it would be without the isPaused test.
TickIgnoringPause ==
  /\ timerActive
  /\ ticks < MaxTicks
  /\ ticks' = ticks + 1
  /\ polls' = [polls EXCEPT ![ticks + 1].stage = "props"]
  /\ UNCHANGED <<writer, remote, envEvents, phase, buffer, view, isPaused,
                 currentSize, timerActive, resyncs,
                 completions, navVars, groupVars, pagerVars, cacheVars, dirVars>>

\* The setInterval callback up to its first await.
Tick ==
  /\ timerActive
  /\ ticks < MaxTicks
  /\ ticks' = ticks + 1
  /\ polls' = [polls EXCEPT ![ticks + 1].stage =
                 IF isPaused THEN "skipped" ELSE "props"]
  /\ UNCHANGED <<writer, remote, envEvents, phase, buffer, view, isPaused,
                 currentSize, timerActive, resyncs,
                 completions, navVars, groupVars, pagerVars, cacheVars, dirVars>>

\* CatchError as it would be without the test for the range error.
CatchErrorNoRequery(i, msg) ==
  /\ view' = view \o <<WidgetLine("error", i, <<>>, 0, msg),
                       WidgetLine("retry", i, <<>>, 0, "")>>
  /\ polls' = [polls EXCEPT ![i].err = msg, ![i].stage = "done"]

\* CatchError as it would be if the error message replaced the widget's
\* content (setContent in place of add).
CatchErrorReplacesView(i, msg) ==
  /\ view' = <<WidgetLine("error", i, <<>>, 0, msg),
               WidgetLine("retry", i, <<>>, 0, "")>>
  /\ polls' = [polls EXCEPT ![i].err = msg,
                            ![i].requeried = IsRangeInvalid(msg),
                            ![i].stage = IF IsRangeInvalid(msg)
                                         THEN "requery" ELSE "done"]

\* The catch block up to its await: two lines are added, and a range error
\* leads to the second getProperties.
CatchError(i, msg) ==
  /\ view' = view \o <<WidgetLine("error", i, <<>>, 0, msg),
                       WidgetLine("retry", i, <<>>, 0, "")>>
  /\ polls' = [polls EXCEPT ![i].err = msg,
                            ![i].requeried = IsRangeInvalid(msg),
                            ![i].stage = IF IsRangeInvalid(msg)
                                         THEN "requery" ELSE "done"]

\* PropsOk as it would be if download were given the end of the range in
\* place of its length.
PropsOkFetchesToEnd(i) ==
  /\ polls[i].stage = "props"
  /\ LET fileSize == Len(remote) IN
     IF fileSize > currentSize
     THEN /\ view' = Append(view,
                 WidgetLine("detected", i, <<>>, fileSize - currentSize, ""))
          /\ polls' = [polls EXCEPT ![i].stage = "download",
                                    ![i].fileSize = fileSize,
                                    ![i].off = currentSize,
                                    ![i].cnt = fileSize,
                                    ![i].epoch = resyncs]
     ELSE /\ view' = view
          /\ polls' = [polls EXCEPT ![i].stage = "done",
                                    ![i].fileSize = fileSize]
  /\ UNCHANGED <<writer, remote, envEvents, phase, buffer, isPaused, currentSize,
                 timerActive, ticks, resyncs,
                 completions, navVars, groupVars, pagerVars, cacheVars, dirVars>>

\* PropsOk as it would be with the comparison of the sizes turned around.
PropsOkReversedTest(i) ==
  /\ polls[i].stage = "props"
  /\ LET fileSize == Len(remote) IN
     IF fileSize < currentSize
     THEN /\ view' = Append(view,
                 WidgetLine("detected", i, <<>>, fileSize - currentSize, ""))
          /\ polls' = [polls EXCEPT ![i].stage = "download",
                                    ![i].fileSize = fileSize,
                                    ![i].off = currentSize,
                                    ![i].cnt = fileSize - currentSize,
                                    ![i].epoch = resyncs]
     ELSE /\ view' = view
          /\ polls' = [polls EXCEPT ![i].stage = "done",
                                    ![i].fileSize = fileSize]
  /\ UNCHANGED <<writer, remote, envEvents, phase, buffer, isPaused, currentSize,
                 timerActive, ticks, resyncs, completions, navVars, groupVars, pagerVars, cacheVars, dirVars>>

\* getProperties resolved (line 458) up to the next await.
PropsOk(i) ==
  /\ polls[i].stage = "props"
  /\ LET fileSize == Len(remote) IN
     IF fileSize > currentSize
     THEN /\ view' = Append(view,
                 WidgetLine("detected", i, <<>>, fileSize - currentSize, ""))
          /\ polls' = [polls EXCEPT ![i].stage = "download",
                                    ![i].fileSize = fileSize,
                                    ![i].off = currentSize,
                                    ![i].cnt = fileSize - currentSize,
                                    ![i].epoch = resyncs]
     ELSE /\ view' = view
          /\ polls' = [polls EXCEPT ![i].stage = "done",
                                    ![i].fileSize = fileSize]
  /\ UNCHANGED <<writer, remote, envEvents, phase, buffer, isPaused, currentSize,
                 timerActive, ticks, resyncs,
                 completions, navVars, groupVars, pagerVars, cacheVars, dirVars>>

\* getProperties rejected (line 458).
PropsFail(i) ==
  /\ polls[i].stage = "props"
  /\ envEvents < MaxEnvEvents
  /\ envEvents' = envEvents + 1
  /\ CatchError(i, TransientMsg)
  /\ UNCHANGED <<writer, remote, phase, buffer, isPaused, currentSize,
                 timerActive, ticks, resyncs,
                 completions, navVars, groupVars, pagerVars, cacheVars, dirVars>>

\* download resolved and the stream read to its end (lines 466-495).
DownloadOk(i) ==
  /\ polls[i].stage = "download"
  /\ polls[i].off < Len(remote)
  /\ LET p == polls[i]
         chunk == SubSeq(remote, p.off + 1, Min(p.off + p.cnt, Len(remote)))
         newContent == BufferToString(chunk)
     IN IF chunk # <<>>
        THEN /\ view' = view \o ContentLines(i, p.off, NonBlank(Split(newContent)))
             /\ currentSize' = p.fileSize
        ELSE UNCHANGED <<view, currentSize>>
  /\ polls' = [polls EXCEPT ![i].stage = "done",
                            ![i].got = Min(polls[i].off + polls[i].cnt,
                                           Len(remote)) - polls[i].off]
  /\ UNCHANGED <<writer, remote, envEvents, phase, buffer, isPaused,
                 timerActive, ticks, resyncs,
                 completions, navVars, groupVars, pagerVars, cacheVars, dirVars>>

\* DownloadFail as it would be if the catch block cleared the interval.
DownloadFailClearsTimer(i) ==
  /\ polls[i].stage = "download"
  /\ \E msg \in ErrorMessages :
       /\ IF IsRangeInvalid(msg)
          THEN polls[i].off >= Len(remote) /\ envEvents' = envEvents
          ELSE envEvents < MaxEnvEvents /\ envEvents' = envEvents + 1
       /\ CatchError(i, msg)
  /\ timerActive' = FALSE
  /\ UNCHANGED <<writer, remote, phase, buffer, isPaused, currentSize,
                 ticks, resyncs,
                 completions, navVars, groupVars, pagerVars, cacheVars, dirVars>>

\* download rejected: with a range error when the offset is no longer inside
\* the file, with any other error at any time.
DownloadFail(i) ==
  /\ polls[i].stage = "download"
  /\ \E msg \in ErrorMessages :
       /\ IF IsRangeInvalid(msg)
          THEN polls[i].off >= Len(remote) /\ envEvents' = envEvents
          ELSE envEvents < MaxEnvEvents /\ envEvents' = envEvents + 1
       /\ CatchError(i, msg)
  /\ UNCHANGED <<writer, remote, phase, buffer, isPaused, currentSize,
                 timerActive, ticks, resyncs,
                 completions, navVars, groupVars, pagerVars, cacheVars, dirVars>>

\* RequeryOk as it would be if the position were not reset.
RequeryOkKeepsPosition(i) ==
  /\ polls[i].stage = "requery"
  /\ view' = Append(view, WidgetLine("reset", i, <<>>, currentSize, ""))
  /\ polls' = [polls EXCEPT ![i].stage = "done", ![i].resynced = TRUE]
  /\ resyncs' = resyncs + 1
  /\ UNCHANGED <<writer, remote, envEvents, phase, buffer, isPaused,
                 currentSize, timerActive, ticks,
                 completions, navVars, groupVars, pagerVars, cacheVars, dirVars>>

\* second getProperties resolved (lines 505-508).
RequeryOk(i) ==
  /\ polls[i].stage = "requery"
  /\ currentSize' = Len(remote)
  /\ view' = Append(view, WidgetLine("reset", i, <<>>, Len(remote), ""))
  /\ polls' = [polls EXCEPT ![i].stage = "done", ![i].resynced = TRUE]
  /\ resyncs' = resyncs + 1
  /\ UNCHANGED <<writer, remote, envEvents, phase, buffer, isPaused,
                 timerActive, ticks,
                 completions, navVars, groupVars, pagerVars, cacheVars, dirVars>>

\* RequeryFail as it would be if the inner catch stopped the timer.
RequeryFailClearsTimer(i) ==
  /\ polls[i].stage = "requery"
  /\ view' = Append(view, WidgetLine("reseterror", i, <<>>, 0, TransientMsg))
  /\ polls' = [polls EXCEPT ![i].stage = "done"]
  /\ envEvents < MaxEnvEvents
  /\ envEvents' = envEvents + 1
  /\ timerActive' = FALSE
  /\ UNCHANGED <<writer, remote, phase, buffer, isPaused, currentSize,
                 ticks, resyncs,
                 completions, navVars, groupVars, pagerVars, cacheVars, dirVars>>

\* second getProperties rejected (lines 509-512).
RequeryFail(i) ==
  /\ polls[i].stage = "requery"
  /\ view' = Append(view, WidgetLine("reseterror", i, <<>>, 0, TransientMsg))
  /\ polls' = [polls EXCEPT ![i].stage = "done"]
  /\ envEvents < MaxEnvEvents
  /\ envEvents' = envEvents + 1
  /\ UNCHANGED <<writer, remote, phase, buffer, isPaused, currentSize,
                 timerActive, ticks, resyncs,
                 completions, navVars, groupVars, pagerVars, cacheVars, dirVars>>

Next ==
  \/ RemoteAppend
  \/ RemoteTruncate
  \/ StartStreaming
  \/ TogglePause
  \/ Quit
  \/ Tick
  \/ \E i \in PollIds : PropsOk(i)
  \/ \E i \in PollIds : PropsFail(i)
  \/ \E i \in PollIds : DownloadOk(i)
  \/ \E i \in PollIds : DownloadFail(i)
  \/ \E i \in PollIds : RequeryOk(i)
  \/ \E i \in PollIds : RequeryFail(i)

Spec == Init /\ [][Next]_vars

\* ------------------------------------------------------------ observers
\* A cycle is in progress from its tick until its last continuation has run.
InProgress(i) == polls[i].stage \in {"props", "download", "requery"}

\* Calls of getProperties issued so far (lines 458 and 505).
QueriesIssued ==
  Cardinality({i \in PollIds : polls[i].stage \notin {"idle", "skipped"}})
  + Cardinality({i \in PollIds : polls[i].requeried})

\* Calls of download issued so far (line 466).
FetchesIssued == Cardinality({i \in PollIds : polls[i].cnt > 0})

ContentAt(p) == view[p].kind = "content"

\* ------------------------------------------------------------------ C1
\* C1: polls of one session are serialized: at no time are two poll cycles
\* in progress at once.
C1_PollsSerialized ==
  Cardinality({i \in PollIds : InProgress(i)}) <= 1

\* ------------------------------------------------------------------ C2
\* C2: lines reach the view in file order: the content lines of an earlier
\* cycle all come before those of a later cycle, and the lines of one cycle
\* come in the order of their offsets.
C2_LinesInFileOrder ==
  \A p, q \in 1..Len(view) :
    (p < q /\ ContentAt(p) /\ ContentAt(q)) =>
      \/ view[p].cycle < view[q].cycle
      \/ view[p].cycle = view[q].cycle /\ view[p].n < view[q].n

\* ------------------------------------------------------------------ C3
\* C3: two range fetches of the session that delivered bytes, with no resync
\* between them, cover disjoint byte ranges.
C3_RangesDisjoint ==
  \A i, j \in PollIds :
    (i # j /\ polls[i].got > 0 /\ polls[j].got > 0
       /\ polls[i].epoch = polls[j].epoch) =>
      \/ polls[i].off + polls[i].got <= polls[j].off
      \/ polls[j].off + polls[j].got <= polls[i].off

\* ------------------------------------------------------------------ C4
\* C4: when the session starts, observedLength is the byte length of the
\* content that was loaded and shown.
C4_SeedIsByteLength ==
  (phase = "streaming" /\ ticks = 0) => currentSize = Len(buffer)

\* ------------------------------------------------------------------ C5
\* C5 as stated: while the session is paused no remote call at all is issued,
\* also not by a poll that was already under way.
C5_NoCallWhilePaused ==
  [][isPaused =>
       QueriesIssued' = QueriesIssued /\ FetchesIssued' = FetchesIssued]_vars

\* C5 as amended: a timer tick that fires while the session is paused starts
\* no poll: it issues no length query and no range fetch.
C5_NoPollStartsWhilePaused ==
  [][(isPaused /\ ticks' # ticks) =>
       /\ QueriesIssued' = QueriesIssued
       /\ FetchesIssued' = FetchesIssued
       /\ polls'[ticks'].stage = "skipped"]_vars

C5_Witness ==
  /\ isPaused
  /\ \E i \in PollIds : polls[i].stage = "skipped"
  /\ \E i \in PollIds : polls[i].stage = "download"

\* ------------------------------------------------------------------ C6
\* C6: once the user has cancelled, no timer tick fires and no poll starts.
C6_NoTickAfterStop ==
  [][phase = "stopped" =>
       /\ ticks' = ticks
       /\ \A i \in PollIds :
            polls[i].stage = "idle" => polls'[i].stage = "idle"]_vars

C6_Witness ==
  phase = "stopped" /\ isPaused /\ ticks >= 1 /\ ticks < MaxTicks

\* ------------------------------------------------------------------ C7
\* C7: once the session is stopped nothing is added to the view and
\* observedLength does not change.
C7_StoppedIsFrozen ==
  [][phase = "stopped" => view' = view /\ currentSize' = currentSize]_vars

\* ------------------------------------------------------------------ C8
\* A length query of poll i resolves, the poll ends there, and the file is
\* shorter than observedLength.
FoundShorter(i) ==
  /\ polls[i].stage = "props"
  /\ polls'[i].stage = "done"
  /\ polls'[i].err = "none"
  /\ Len(remote) < currentSize

\* The re-query of poll i resolves.
Resynced(i) == polls[i].stage = "requery" /\ polls'[i].resynced

\* C8 as stated: a poll of the running session that finds the remote file
\* shorter than observedLength resets observedLength to the remote length.
C8_ShorterFileResets ==
  [][\A i \in PollIds :
       (FoundShorter(i) /\ phase = "streaming" /\ ~isPaused) =>
         currentSize' = Len(remote)]_vars

\* C8 as amended: truncation is detected only by a range fetch that fails as
\* range-invalid; the re-query of that poll sets observedLength to the remote
\* length, and every later range fetch starts at observedLength.  A poll that
\* finds the file shorter than observedLength changes nothing.
C8_TruncationRecovery ==
  [][\A i \in PollIds :
       /\ FoundShorter(i) => (currentSize' = currentSize /\ view' = view)
       /\ Resynced(i) => currentSize' = Len(remote)
       /\ (polls[i].stage = "props" /\ polls'[i].stage = "download") =>
            (polls'[i].off = currentSize /\ currentSize' = currentSize)]_vars

C8_Witness ==
  \E i, j \in PollIds :
    /\ polls[i].resynced
    /\ polls[j].cnt > 0
    /\ polls[j].epoch > polls[i].epoch

\* ------------------------------------------------------------------ C9
\* The range fetch of poll i fails with the range-invalid error.
RangeRejected(i) ==
  polls[i].stage = "download" /\ polls'[i].err = RangeInvalidMsg

\* C9: a range fetch that fails as range-invalid makes the poll re-query the
\* length; the re-query sets observedLength to the length it read and adds
\* the status line that names it; the cycle adds no content line; pause
\* state and timer are left as they are.
C9_ResyncOnRangeError ==
  [][\A i \in PollIds :
       /\ RangeRejected(i) =>
            /\ polls'[i].stage = "requery"
            /\ polls'[i].requeried
            /\ currentSize' = currentSize
       /\ Resynced(i) =>
            /\ currentSize' = Len(remote)
            /\ view' = Append(view,
                 WidgetLine("reset", i, <<>>, currentSize', ""))
            /\ polls'[i].stage = "done"
       /\ (RangeRejected(i) \/ Resynced(i)) =>
            UNCHANGED <<isPaused, timerActive, phase>>
       /\ polls'[i].requeried =>
            \A p \in 1..Len(view') :
              ~(view'[p].kind = "content" /\ view'[p].cycle = i)]_vars

C9_Witness ==
  /\ phase = "streaming"
  /\ ~isPaused
  /\ timerActive
  /\ \E i \in PollIds :
       /\ polls[i].resynced
       /\ polls[i].stage = "done"
       /\ \E p \in 1..Len(view) :
            view[p] = WidgetLine("reset", i, <<>>, currentSize, "")

\* ------------------------------------------------------------------ C10
\* A call of the try block of poll i fails with another error.
TransientRejected(i) ==
  /\ polls[i].stage \in {"props", "download"}
  /\ polls'[i].err = TransientMsg

\* C10: an error other than range-invalid adds the error lines to the view,
\* leaves observedLength, pause state and timer as they are and ends the
\* cycle; a later tick of the running session starts a poll; the session is
\* stopped by the quit key only, never by a step of a poll.
C10_TransientErrorKeepsPolling ==
  [][/\ \A i \in PollIds :
          TransientRejected(i) =>
            /\ view' = view \o <<WidgetLine("error", i, <<>>, 0, TransientMsg),
                                 WidgetLine("retry", i, <<>>, 0, "")>>
            /\ polls'[i].stage = "done"
            /\ UNCHANGED <<currentSize, isPaused, timerActive, phase>>
     /\ (ticks' # ticks /\ ~isPaused) => polls'[ticks'].stage = "props"
     /\ (timerActive /\ ~timerActive') =>
          (phase' = "stopped" /\ polls' = polls /\ view' = view)]_vars

C10_Witness ==
  /\ timerActive
  /\ \E i, j \in PollIds :
       /\ i < j
       /\ polls[i].stage = "done"
       /\ polls[i].err = TransientMsg
       /\ polls[j].stage = "done"
       /\ polls[j].got > 0
       /\ \E p \in 1..Len(view) : ContentAt(p) /\ view[p].cycle = j

\* ------------------------------------------------------------------ C11
\* C11: the view is append-only: the lines of the view before a step are a
\* prefix of its lines after the step.
C11_ViewAppendOnly ==
  [][/\ Len(view') >= Len(view)
     /\ SubSeq(view', 1, Len(view)) = view]_vars

C11_Witness ==
  \E p, q, r \in 1..Len(view) :
    /\ p < q /\ q < r
    /\ ContentAt(p)
    /\ view[q].kind = "error"
    /\ view[r].kind \in {"reset", "detected", "content"}

\* ------------------------------------------------------------------ C12
\* C12: observedLength never decreases, except in the step in which a poll
\* that met the range error resets it to the remote length.
C12_Monotonic ==
  [][currentSize' < currentSize => \E i \in PollIds : Resynced(i)]_vars

\* ------------------------------------------------------------------ C14
\* The length query of poll i resolves and the file is longer than
\* observedLength.
FoundLonger(i) ==
  /\ polls[i].stage = "props"
  /\ polls'[i].stage # "props"
  /\ polls'[i].err = "none"
  /\ Len(remote) > currentSize

\* C14: a poll that finds the remote length above observedLength issues one
\* range fetch, of offset observedLength and count remote length minus
\* observedLength; a poll issues no second fetch; when the fetch returns
\* bytes, observedLength becomes the length that the poll had read.
C14_FetchesExactDelta ==
  [][\A i \in PollIds :
       /\ FoundLonger(i) =>
            /\ polls'[i].stage = "download"
            /\ polls'[i].off = currentSize
            /\ polls'[i].cnt = Len(remote) - currentSize
            /\ polls'[i].fileSize = Len(remote)
            /\ FetchesIssued' = FetchesIssued + 1
       /\ polls[i].cnt > 0 =>
            (polls'[i].cnt = polls[i].cnt /\ polls'[i].off = polls[i].off)
       /\ (polls[i].stage = "download" /\ polls'[i].got > 0) =>
            currentSize' = polls[i].fileSize]_vars

C14_Witness ==
  \E i \in PollIds :
    /\ polls[i].stage = "done"
    /\ polls[i].off > 0
    /\ polls[i].got = polls[i].cnt
    /\ currentSize = polls[i].off + polls[i].cnt

\* ------------------------------------------------------------------ C13
\* The length query of poll i resolves and the file is not longer than
\* observedLength.
FoundNoGrowth(i) ==
  /\ polls[i].stage = "props"
  /\ polls'[i].stage # "props"
  /\ polls'[i].err = "none"
  /\ Len(remote) <= currentSize

\* C13: a poll that finds the remote length at or below observedLength ends
\* without a range fetch, adds nothing to the view and leaves observedLength
\* as it is; and as long as the remote file does not change, the remote length
\* stays at or below observedLength, so that the polls that follow fetch
\* nothing either.
C13_NoGrowthNoFetch ==
  [][/\ \A i \in PollIds :
          FoundNoGrowth(i) =>
            /\ polls'[i].stage = "done"
            /\ FetchesIssued' = FetchesIssued
            /\ view' = view
            /\ currentSize' = currentSize
     /\ (phase = "streaming" /\ Len(remote) <= currentSize /\ remote' = remote)
          => Len(remote') <= currentSize']_vars

C16_StopIdempotent ==
  /\ [](phase = "stopped" =>
          /\ QuitHandler(Session) = Session
          /\ QuitAndResolve(Session) = Session
          /\ completions = 1
          /\ ~timerActive)
  /\ [][phase = "stopped" =>
          /\ phase' = "stopped"
          /\ timerActive' = timerActive
          /\ completions' = completions]_vars

C16_Witness ==
  /\ phase = "stopped"
  /\ completions = 1
  /\ ~timerActive
  /\ Len(view) > 1
  /\ \E i \in PollIds : InProgress(i)

\* ------------------------------------------------------------------ C18
\* The session that stays running and whose remote calls succeed: the file
\* only grows, no key is pressed, no call is rejected.  The timer fires again
\* and again and every remote call is answered.
NextGrowth ==
  \/ RemoteAppend
  \/ StartStreaming
  \/ Tick
  \/ \E i \in PollIds : PropsOk(i)
  \/ \E i \in PollIds : DownloadOk(i)

\* The states in which the range fetch of poll i is outstanding and can be
\* answered: the guard of DownloadOk(i).
DownloadPending(i) ==
  /\ polls[i].stage = "download"
  /\ polls[i].off < Len(remote)

\* Weak fairness of the timer and of every answer.  For DownloadOk(i) weak
\* fairness is written out, []<>~ENABLED <<A>>_vars \/ []<><<A>>_vars, with
\* DownloadPending(i) as its enabling condition (DownloadPendingIsEnabling).
SpecGrowth ==
  /\ Init
  /\ [][NextGrowth]_vars
  /\ WF_vars(Tick)
  /\ \A i \in PollIds : WF_vars(PropsOk(i))
  /\ \A i \in PollIds : \/ []<>~DownloadPending(i)
                         \/ []<><<DownloadOk(i)>>_vars

\* DownloadPending(i) is exactly the enabling condition of DownloadOk(i).
DownloadPendingIsEnabling ==
  \A i \in PollIds : DownloadPending(i) <=> ENABLED <<DownloadOk(i)>>_vars

\* Polls whose range fetch delivered bytes.
Fetched == Cardinality({i \in PollIds : polls[i].got > 0})

\* The content lines of cycle i in the view.
LinesOfCycle(i) ==
  SelectSeq(view, LAMBDA e : e.kind = "content" /\ e.cycle = i)

\* The non-blank lines of the range that poll i fetched are in the view and
\* observedLength is the remote length that poll i read.
Shown(i) ==
  /\ polls[i].got > 0
  /\ currentSize = polls[i].fileSize
  /\ LinesOfCycle(i) =
       ContentLines(i, polls[i].off,
         NonBlank(Split(BufferToString(
           SubSeq(remote, polls[i].off + 1, polls[i].off + polls[i].got)))))

GrowthPending ==
  phase = "streaming" /\ Len(remote) > currentSize /\ ticks < MaxTicks

\* C18: when the remote file has grown beyond observedLength (and the timer
\* has ticks left within the bound), a further range fetch eventually
\* delivers: its non-blank lines are added to the view and observedLength
\* becomes the remote length read by that poll.
C18_GrowthShown ==
  \A k \in 0..MaxTicks :
    (GrowthPending /\ Fetched = k)
      ~> (Fetched > k /\ \E i \in PollIds : Shown(i))

C18_Witness ==
  /\ \E i \in PollIds : Shown(i) /\ polls[i].off > 0 /\ LinesOfCycle(i) # <<>>
  /\ Fetched = 2

\* ------------------------------------------------------------- navigation
\* The menus and viewers the user moves between.  Every call is awaited, so
\* there is one position, and the pending displayFile calls form a stack.

\* browseShareContents: a rotation group is selected (index.js 296-298).
SelectGroup ==
  /\ navAt = "browse"
  /\ navAt' = "group"
  /\ UNCHANGED <<navFrom, streamMode, streamRequested, canStream, depth, timers, sessions>>
  /\ UNCHANGED <<sessionVars, groupVars, pagerVars, cacheVars, dirVars>>

\* browseFileGroup: 'back' is selected (index.js 359-361).
GroupBack ==
  /\ navAt = "group"
  /\ navAt' = "browse"
  /\ UNCHANGED <<navFrom, streamMode, streamRequested, canStream, depth, timers, sessions>>
  /\ UNCHANGED <<sessionVars, groupVars, pagerVars, cacheVars, dirVars>>

\* browseShareContents: a plain file is selected, displayFile(shareName, path)
\* is called with streamMode defaulted to false (index.js 303-306).
SelectFile ==
  /\ navAt = "browse"
  /\ navAt' = "loading"
  /\ navFrom' = "browse"
  /\ streamMode' = FALSE
  /\ streamRequested' = FALSE
  /\ depth' = 1
  /\ UNCHANGED <<canStream, timers, sessions>>
  /\ UNCHANGED <<sessionVars, groupVars, pagerVars, cacheVars, dirVars>>

\* browseFileGroup: a member, or the 'Stream real-time' entry, is selected
\* and displayFile(shareName, path, streamMode) is called (index.js 362-370).
SelectGroupFile(stream) ==
  /\ navAt = "group"
  /\ navAt' = "loading"
  /\ navFrom' = "group"
  /\ streamMode' = stream
  /\ streamRequested' = stream
  /\ depth' = 1
  /\ UNCHANGED <<canStream, timers, sessions>>
  /\ UNCHANGED <<sessionVars, groupVars, pagerVars, cacheVars, dirVars>>

\* The outermost displayFile call returns and its caller shows its menu
\* again (index.js 309, 373).  A nested call returns into a displayFile that
\* has nothing left to do (displayFile.js 61-68), so the stack unwinds whole.
Return ==
  /\ navAt' = navFrom
  /\ depth' = 0

\* displayContentWithStreaming up to its return: setInterval creates the
\* polling timer of a new session (displayFile.js 453).
StartSession ==
  /\ sessions' = sessions + 1
  /\ timers' = timers \cup {sessions + 1}
  /\ navAt' = "stream"

\* LoadOk as it would be if the stream request were not checked against
\* isLogFile's answer.
LoadOkStreamsAnyFile(isLog) ==
  /\ navAt = "loading"
  /\ canStream' = isLog
  /\ LET mode == streamMode IN
       /\ streamMode' = mode
       /\ IF mode
          THEN /\ sessions < MaxSessions
               /\ StartSession
          ELSE /\ navAt' = "pager"
               /\ UNCHANGED <<timers, sessions>>
  /\ UNCHANGED <<navFrom, streamRequested, depth>>
  /\ UNCHANGED <<sessionVars, groupVars, pagerVars, cacheVars, dirVars>>

\* displayFile: properties and content arrive; isLog is isLogFile's answer.
\* A stream request for a file that is no log falls back to the pager
\* (displayFile.js 45-70).
LoadOk(isLog) ==
  /\ navAt = "loading"
  /\ canStream' = isLog
  /\ LET mode == streamMode /\ isLog IN
       /\ streamMode' = mode
       /\ IF mode
          THEN /\ sessions < MaxSessions
               /\ StartSession
          ELSE /\ navAt' = "pager"
               /\ UNCHANGED <<timers, sessions>>
  /\ UNCHANGED <<navFrom, streamRequested, depth>>
  /\ UNCHANGED <<sessionVars, groupVars, pagerVars, cacheVars, dirVars>>

\* displayFile: getProperties or download throws; the catch block waits for
\* a key (displayFile.js 72-80).
LoadFail ==
  /\ navAt = "loading"
  /\ navAt' = "failed"
  /\ UNCHANGED <<navFrom, streamMode, streamRequested, canStream, depth, timers, sessions>>
  /\ UNCHANGED <<sessionVars, groupVars, pagerVars, cacheVars, dirVars>>

\* The key that ends the catch block's wait (displayFile.js 76-78).
Acknowledge ==
  /\ navAt = "failed"
  /\ Return
  /\ UNCHANGED <<navFrom, streamMode, streamRequested, canStream, timers, sessions>>
  /\ UNCHANGED <<sessionVars, groupVars, pagerVars, cacheVars, dirVars>>

\* Pager, q or escape: resolve({switchToStream: false, refresh: false})
\* (displayFile.js 326-331).
PagerQuit ==
  /\ navAt = "pager"
  /\ Return
  /\ UNCHANGED <<navFrom, streamMode, streamRequested, canStream, timers, sessions>>
  /\ UNCHANGED <<sessionVars, groupVars, pagerVars, cacheVars, dirVars>>

\* Pager, s: offered when canStream; displayFile calls itself with
\* streamMode true (displayFile.js 334-339, 61-63).
PagerSwitchToStream ==
  /\ navAt = "pager"
  /\ canStream
  /\ depth < MaxDepth
  /\ navAt' = "loading"
  /\ streamMode' = TRUE
  /\ streamRequested' = TRUE
  /\ depth' = depth + 1
  /\ UNCHANGED <<navFrom, canStream, timers, sessions>>
  /\ UNCHANGED <<sessionVars, groupVars, pagerVars, cacheVars, dirVars>>

\* Pager, r: displayFile calls itself with streamMode false
\* (displayFile.js 342-346, 64-68).
PagerRefresh ==
  /\ navAt = "pager"
  /\ depth < MaxDepth
  /\ navAt' = "loading"
  /\ streamMode' = FALSE
  /\ streamRequested' = FALSE
  /\ depth' = depth + 1
  /\ UNCHANGED <<navFrom, canStream, timers, sessions>>
  /\ UNCHANGED <<sessionVars, groupVars, pagerVars, cacheVars, dirVars>>

\* StreamQuit as it would be if the handlers left the interval running.
StreamQuitKeepsTimer ==
  /\ navAt = "stream"
  /\ timers' = timers
  /\ Return
  /\ UNCHANGED <<navFrom, streamMode, streamRequested, canStream, sessions>>
  /\ UNCHANGED <<sessionVars, groupVars, pagerVars, cacheVars, dirVars>>

\* Streaming view, q or escape: clearInterval(streamingInterval) and
\* resolve() (displayFile.js 444-447, 518-524).
StreamQuit ==
  /\ navAt = "stream"
  /\ timers' = timers \ {sessions}
  /\ Return
  /\ UNCHANGED <<navFrom, streamMode, streamRequested, canStream, sessions>>
  /\ UNCHANGED <<sessionVars, groupVars, pagerVars, cacheVars, dirVars>>

NextNav ==
  \/ SelectGroup
  \/ GroupBack
  \/ SelectFile
  \/ \E stream \in BOOLEAN : SelectGroupFile(stream)
  \/ \E isLog \in BOOLEAN : LoadOk(isLog)
  \/ LoadFail
  \/ Acknowledge
  \/ PagerQuit
  \/ PagerSwitchToStream
  \/ PagerRefresh
  \/ StreamQuit

SpecNav == Init /\ [][NextNav]_vars

\* C15: at most one tailing session is active at any time: at most one
\* polling timer is set, and a step that creates a timer starts from a state
\* in which every earlier timer has been cleared.
C15_OneSessionAtATime ==
  /\ [](Cardinality(timers) <= 1)
  /\ [](navAt # "stream" => timers = {})
  /\ [][timers' \ timers # {} => timers = {}]_vars

\* A second session is tailing, entered from the pager of a group member.
C15_Witness ==
  /\ navAt = "stream"
  /\ sessions = 2
  /\ depth = 2
  /\ timers = {2}

\* ------------------------------------------------------- rotation groups
\* browseShareContents and browseFileGroup of src/src/index.js.  A file name
\* is the sequence of its dot-separated segments and a segment is a sequence
\* of characters, so "app.log.1-9.5" is <<app, log, <<"1","-","9">>, <<"5">>>>.
\* Neither [0-9-]+ nor \d+ matches a dot, so the date and the number of a
\* match are whole segments at the end of the name.
Digits == <<"0", "1", "2", "3", "4", "5", "6", "7", "8", "9">>

IsDigit(c) == \E d \in 1..10 : Digits[d] = c

DigitValue(c) == (CHOOSE d \in 1..10 : Digits[d] = c) - 1

\* [0-9-]+
IsDateToken(seg) ==
  /\ seg # <<>>
  /\ \A k \in 1..Len(seg) : IsDigit(seg[k]) \/ seg[k] = "-"

\* \d+
IsNumberToken(seg) ==
  /\ seg # <<>>
  /\ \A k \in 1..Len(seg) : IsDigit(seg[k])

LogSegment == <<"l", "o", "g">>

NoMatch == [ok |-> FALSE, base |-> <<>>, date |-> <<>>, num |-> <<>>]

\* /^(.+?\.log)\.([0-9-]+)\.(\d+)$/ : name.log.date.number
logPattern1(name) ==
  LET n == Len(name) IN
    IF /\ n >= 4
       /\ name[n - 2] = LogSegment
       /\ (n > 4 \/ name[1] # <<>>)
       /\ IsDateToken(name[n - 1])
       /\ IsNumberToken(name[n])
    THEN [ok |-> TRUE, base |-> SubSeq(name, 1, n - 2), date |-> name[n - 1],
          num |-> name[n]]
    ELSE NoMatch

\* /^(.+?\.log)\.([0-9-]+)$/ : name.log.date ; match[3] is undefined, here
\* the empty sequence.
logPattern2(name) ==
  LET n == Len(name) IN
    IF /\ n >= 3
       /\ name[n - 1] = LogSegment
       /\ (n > 3 \/ name[1] # <<>>)
       /\ IsDateToken(name[n])
    THEN [ok |-> TRUE, base |-> SubSeq(name, 1, n - 1), date |-> name[n],
          num |-> <<>>]
    ELSE NoMatch

\* name.match(logPattern1) || name.match(logPattern2)
Match(name) ==
  IF logPattern1(name).ok THEN logPattern1(name) ELSE logPattern2(name)

\* The place of a date-token character in the collation String.localeCompare
\* uses: the hyphen sorts before the digits, the digits in their order.
CollationWeight(c) == IF c = "-" THEN 0 ELSE 1 + DigitValue(c)

\* x.localeCompare(y) on date tokens: negative, zero or positive.
RECURSIVE localeCompare(_, _)
localeCompare(x, y) ==
  IF x = <<>> THEN (IF y = <<>> THEN 0 ELSE -1)
  ELSE IF y = <<>> THEN 1
  ELSE IF CollationWeight(Head(x)) < CollationWeight(Head(y)) THEN -1
  ELSE IF CollationWeight(Head(x)) > CollationWeight(Head(y)) THEN 1
  ELSE localeCompare(Tail(x), Tail(y))

\* parseInt(seg, 10) of a string of digits.
RECURSIVE parseInt(_)
parseInt(seg) ==
  IF seg = <<>> THEN 0
  ELSE 10 * parseInt(SubSeq(seg, 1, Len(seg) - 1)) + DigitValue(seg[Len(seg)])

\* The comparator handed to sort (index.js 199-221).
Comparator(a, b) ==
  LET matchA == Match(a.name)
      matchB == Match(b.name)
  IN IF ~matchA.ok \/ ~matchB.ok THEN 0
     ELSE IF matchA.date # matchB.date
          THEN localeCompare(matchB.date, matchA.date)
     ELSE IF matchA.num # <<>> /\ matchB.num # <<>>
          THEN parseInt(matchB.num) - parseInt(matchA.num)
     ELSE 0

\* Array.prototype.sort as Node's engine runs it on an array shorter than
\* one minimal run: the leading run is found (and reversed when it strictly
\* descends), then the rest is placed by binary insertion.  The comparator
\* above does not order a numbered against an unnumbered member of one date,
\* so the result depends on these steps.
RECURSIVE RunLength(_, _, _)
RunLength(arr, isDescending, idx) ==
  IF idx > Len(arr) THEN idx - 1
  ELSE LET order == Comparator(arr[idx], arr[idx - 1]) IN
         IF (isDescending /\ order >= 0) \/ (~isDescending /\ order < 0)
         THEN idx - 1
         ELSE RunLength(arr, isDescending, idx + 1)

Reverse(arr) == [k \in 1..Len(arr) |-> arr[Len(arr) + 1 - k]]

RECURSIVE BinarySearch(_, _, _, _)
BinarySearch(arr, pivot, left, right) ==
  IF left >= right THEN left
  ELSE LET mid == left + ((right - left) \div 2) IN
         IF Comparator(pivot, arr[mid]) < 0
         THEN BinarySearch(arr, pivot, left, mid)
         ELSE BinarySearch(arr, pivot, mid + 1, right)

RECURSIVE BinaryInsertionSort(_, _)
BinaryInsertionSort(arr, start) ==
  IF start > Len(arr) THEN arr
  ELSE LET pivot == arr[start]
           left == BinarySearch(arr, pivot, 1, start)
       IN BinaryInsertionSort(
            SubSeq(arr, 1, left - 1) \o <<pivot>> \o SubSeq(arr, left, start - 1)
              \o SubSeq(arr, start + 1, Len(arr)),
            start + 1)

ArraySort(arr) ==
  IF Len(arr) < 2 THEN arr
  ELSE LET isDescending == Comparator(arr[2], arr[1]) < 0
           run == RunLength(arr, isDescending, 3)
           made == IF isDescending
                   THEN Reverse(SubSeq(arr, 1, run)) \o SubSeq(arr, run + 1, Len(arr))
                   ELSE arr
       IN BinaryInsertionSort(made, run + 1)

\* The entries a directory can hold: rotated logs of app.log with the dates
\* 1-9, 1-10 and 2 and the numbers 5, 7 and 10, one of sys.log, the plain
\* files app.log and sys.log, a directory whose name looks like a rotated
\* log and the directory sys.
AppSegment == <<"a", "p", "p">>

SysSegment == <<"s", "y", "s">>

FileNames ==
  { <<AppSegment, LogSegment, <<"1", "-", "9">>>>,
    <<AppSegment, LogSegment, <<"1", "-", "9">>, <<"5">>>>,
    <<AppSegment, LogSegment, <<"1", "-", "9">>, <<"7">>>>,
    <<AppSegment, LogSegment, <<"1", "-", "9">>, <<"1", "0">>>>,
    <<AppSegment, LogSegment, <<"1", "-", "1", "0">>, <<"7">>>>,
    <<AppSegment, LogSegment, <<"2">>>>,
    <<SysSegment, LogSegment, <<"1", "-", "9">>>>,
    <<AppSegment, LogSegment>>,
    <<SysSegment, LogSegment>> }

Entries ==
  [name : FileNames, isDirectory : {FALSE}]
    \cup {[name |-> <<AppSegment, LogSegment, <<"2">>, <<"5">>>>,
           isDirectory |-> TRUE],
          [name |-> <<SysSegment>>, isDirectory |-> TRUE]}

\* What listFiles can return: up to MaxFiles entries of distinct names, in
\* any order.
RECURSIVE Listings(_)
Listings(k) ==
  IF k = 0 THEN {<<>>}
  ELSE LET shorter == Listings(k - 1) IN
         shorter \cup
         { Append(l, e) : <<l, e>> \in
             { le \in shorter \X Entries :
                 /\ Len(le[1]) = k - 1
                 /\ \A m \in 1..Len(le[1]) : le[1][m].name # le[2].name } }

\* Before the first listing there are no groups, no group on display and no
\* stream entry.
NoGroups == <<>>

NoGroup == <<>>

NoFile == <<>>

IsGrouped(item) == ~item.isDirectory /\ Match(item.name).ok

\* GroupFiles as it would be if the key of a group were the name without its
\* last segment, so that the date stayed in the key of a numbered member.
GroupFilesByPrefix(listing) ==
  [b \in {SubSeq(listing[k].name, 1, Len(listing[k].name) - 1) :
            k \in {m \in 1..Len(listing) : IsGrouped(listing[m])}} |->
     SelectSeq(listing,
       LAMBDA item : /\ IsGrouped(item)
                     /\ SubSeq(item.name, 1, Len(item.name) - 1) = b)]

\* The grouping loop (index.js 172-194): every file whose name matches is
\* pushed to the group of its base name, in listing order.
GroupFiles(listing) ==
  [b \in {Match(listing[k].name).base :
            k \in {m \in 1..Len(listing) : IsGrouped(listing[m])}} |->
     SelectSeq(listing,
       LAMBDA item : IsGrouped(item) /\ Match(item.name).base = b)]

\* NonGrouped as it would be without the else branch of the directory test.
NonGroupedFilesOnly(listing) ==
  SelectSeq(listing, LAMBDA item : ~item.isDirectory /\ ~Match(item.name).ok)

\* The grouping loop: directories and files that match neither pattern are
\* pushed to nonGroupedItems (index.js 189-193).
NonGrouped(listing) == SelectSeq(listing, LAMBDA item : ~IsGrouped(item))

\* Every group sorted in place (index.js 197-222).
SortGroups(groups) == [b \in DOMAIN groups |-> ArraySort(groups[b])]

\* UTF-16 code units of the characters of the names, "." included.
Utf16(c) ==
  IF c = "." THEN 46
  ELSE IF c = "-" THEN 45
  ELSE IF IsDigit(c) THEN 48 + DigitValue(c)
  ELSE CASE c = "a" -> 97 [] c = "g" -> 103 [] c = "l" -> 108
         [] c = "o" -> 111 [] c = "p" -> 112 [] c = "s" -> 115
         [] c = "y" -> 121

\* The name as one string: its segments joined by dots.
RECURSIVE Joined(_)
Joined(name) ==
  IF name = <<>> THEN <<>>
  ELSE IF Len(name) = 1 THEN name[1]
  ELSE name[1] \o <<".">> \o Joined(Tail(name))

\* Order of two strings by code units, as sort() without a comparator uses.
RECURSIVE CodeUnitLess(_, _)
CodeUnitLess(x, y) ==
  IF y = <<>> THEN FALSE
  ELSE IF x = <<>> THEN TRUE
  ELSE IF Utf16(Head(x)) # Utf16(Head(y)) THEN Utf16(Head(x)) < Utf16(Head(y))
  ELSE CodeUnitLess(Tail(x), Tail(y))

\* Object.keys(fileGroups).sort()
RECURSIVE SortedKeys(_)
SortedKeys(keys) ==
  IF keys = {} THEN <<>>
  ELSE LET least == CHOOSE k \in keys :
                      \A other \in keys \ {k} :
                        CodeUnitLess(Joined(k), Joined(other))
       IN <<least>> \o SortedKeys(keys \ {least})

\* IsDemoted as it would be if every single-member group were shown as a
\* plain file.
IsDemotedWhenSingle(groupName, files) == Len(files) = 1

\* A single file that is a direct match for the group's name is shown
\* without a group (index.js 245).
IsDemoted(groupName, files) ==
  Len(files) = 1 /\ files[1].name = groupName

Choice(kind, value) == [kind |-> kind, value |-> value]

Separator == Choice("separator", <<>>)

\* MenuChoices as it would be if the files were added before the
\* directories.
MenuChoicesFilesFirst(groups, nonGrouped, inSubdirectory) ==
  LET keys == SortedKeys(DOMAIN groups)
      directories == SelectSeq(nonGrouped, LAMBDA item : item.isDirectory)
      files == SelectSeq(nonGrouped, LAMBDA item : ~item.isDirectory)
  IN (IF inSubdirectory THEN <<Choice("back", <<>>)>> ELSE <<>>)
     \o [k \in 1..Len(files) |-> Choice("file", files[k])]
     \o [k \in 1..Len(keys) |->
           Choice("group", [isGroup |-> TRUE, name |-> keys[k],
                            files |-> groups[keys[k]]])]
     \o [k \in 1..Len(directories) |-> Choice("directory", directories[k])]
     \o <<Separator, Choice("main", <<>>)>>

\* The choices of the directory menu (index.js 225-272): 'back' in a
\* subdirectory, the directories, the groups by sorted name, the files that
\* are in no group, then the separator and the way back to the shares.
MenuChoices(groups, nonGrouped, inSubdirectory) ==
  LET keys == SortedKeys(DOMAIN groups)
      directories == SelectSeq(nonGrouped, LAMBDA item : item.isDirectory)
      files == SelectSeq(nonGrouped,
                 LAMBDA item :
                   /\ ~item.isDirectory
                   /\ ~\E b \in DOMAIN groups : \E k \in 1..Len(groups[b]) :
                          groups[b][k].name = item.name)
  IN (IF inSubdirectory THEN <<Choice("back", <<>>)>> ELSE <<>>)
     \o [k \in 1..Len(directories) |-> Choice("directory", directories[k])]
     \o [k \in 1..Len(keys) |->
           IF IsDemoted(keys[k], groups[keys[k]])
           THEN Choice("file", groups[keys[k]][1])
           ELSE Choice("group", [isGroup |-> TRUE, name |-> keys[k],
                                 files |-> groups[keys[k]]])]
     \o [k \in 1..Len(files) |-> Choice("file", files[k])]
     \o <<Separator, Choice("main", <<>>)>>

\* The user leaves a menu for a directory view (index.js 286-309, 359-361):
\* browseShareContents is called and awaits listFiles.
OpenDirectory ==
  /\ menuAt \in {"list", "group"}
  /\ menuAt' = "start"
  /\ items' = <<>>
  /\ fileGroups' = NoGroups
  /\ nonGroupedItems' = <<>>
  /\ choices' = <<>>
  /\ group' = NoGroup
  /\ mostRecentFile' = NoFile
  /\ UNCHANGED <<sessionVars, navVars, pagerVars, cacheVars, dirVars>>

\* browseShareContents from the answer of listFiles to the prompt: an empty
\* listing leaves for the parent, otherwise the files are grouped by base
\* name in listing order, every group is sorted and the menu is built
\* (index.js 145-283).
BrowseShareContents(listing, inSubdirectory) ==
  /\ menuAt = "start"
  /\ items' = listing
  /\ IF listing = <<>>
     THEN /\ menuAt' = "start"
          /\ fileGroups' = NoGroups
          /\ nonGroupedItems' = <<>>
          /\ choices' = <<>>
     ELSE /\ menuAt' = "list"
          /\ fileGroups' = SortGroups(GroupFiles(listing))
          /\ nonGroupedItems' = NonGrouped(listing)
          /\ choices' = MenuChoices(SortGroups(GroupFiles(listing)),
                                    NonGrouped(listing), inSubdirectory)
  /\ group' = NoGroup
  /\ mostRecentFile' = NoFile
  /\ UNCHANGED <<sessionVars, navVars, pagerVars, cacheVars, dirVars>>

\* The menu shows a group as a folder unless it is the single file whose
\* name is the group's name (index.js 241-256).
IsGroupChoice(b) == ~IsDemoted(b, fileGroups[b])

\* browseFileGroup up to its prompt: the 'Stream real-time' entry is made
\* from group.files[0] (index.js 321-345).
BrowseFileGroup(b) ==
  /\ menuAt = "list"
  /\ b \in DOMAIN fileGroups
  /\ IsGroupChoice(b)
  /\ menuAt' = "group"
  /\ group' = [name |-> b, files |-> fileGroups[b]]
  /\ mostRecentFile' = IF fileGroups[b] # <<>> THEN fileGroups[b][1] ELSE NoFile
  /\ UNCHANGED <<items, fileGroups, nonGroupedItems, choices>>
  /\ UNCHANGED <<sessionVars, navVars, pagerVars, cacheVars, dirVars>>

NextGroup ==
  \/ OpenDirectory
  \/ /\ menuAt = "start"
     /\ \E listing \in Listings(MaxFiles) : \E inSubdirectory \in BOOLEAN :
          BrowseShareContents(listing, inSubdirectory)
  \/ \E b \in DOMAIN fileGroups : BrowseFileGroup(b)

\* No file is being tailed while a directory is listed, a file is paged or a
\* client is asked for; which logger writes the remote file is of no account.
InitAtRest == Init /\ writer = "ascii"

SpecGroup == InitAtRest /\ [][NextGroup]_vars

\* Lexicographic order of date tokens by character code: "-" is 0x2D, the
\* digits follow from 0x30.
CharCode(c) == IF c = "-" THEN 45 ELSE 48 + DigitValue(c)

RECURSIVE LexLess(_, _)
LexLess(x, y) ==
  IF y = <<>> THEN FALSE
  ELSE IF x = <<>> THEN TRUE
  ELSE IF CharCode(Head(x)) # CharCode(Head(y))
       THEN CharCode(Head(x)) < CharCode(Head(y))
  ELSE LexLess(Tail(x), Tail(y))

\* Both members carry a sequence number and y's is the greater.
NumberLess(x, y) ==
  /\ x.num # <<>>
  /\ y.num # <<>>
  /\ parseInt(x.num) < parseInt(y.num)

\* C19: in every rotation group, for members x placed before y, x's date
\* token is lexicographically greater than or equal to y's, and when the
\* date tokens are equal and both carry a sequence number x's number is
\* greater than or equal to y's.
C19_GroupsSorted ==
  \A b \in DOMAIN fileGroups :
    \A i, j \in 1..Len(fileGroups[b]) :
      i < j =>
        LET x == Match(fileGroups[b][i].name)
            y == Match(fileGroups[b][j].name)
        IN /\ ~LexLess(x.date, y.date)
           /\ x.date = y.date => ~NumberLess(x, y)

\* C20: the file behind 'Stream real-time' is the first member of the group
\* on display and no member of the group has a greater date token, or an
\* equal date token together with a greater sequence number.
C20_StreamChoiceIsNewest ==
  menuAt = "group" =>
    /\ mostRecentFile = group.files[1]
    /\ \A k \in 1..Len(group.files) :
         LET first == Match(mostRecentFile.name)
             other == Match(group.files[k].name)
         IN /\ ~LexLess(first.date, other.date)
            /\ first.date = other.date => ~NumberLess(first, other)

\* ------------------------------------------------------------ C21 .. C24
\* How often x occurs in seq.
Occurrences(seq, x) == Cardinality({k \in 1..Len(seq) : seq[k] = x})

\* The name matches pattern (a) or, failing that, pattern (b).
MatchesPattern(name) == logPattern1(name).ok \/ logPattern2(name).ok

\* The groups that hold x.
GroupsOf(x) == {b \in DOMAIN fileGroups : Occurrences(fileGroups[b], x) > 0}

\* The values of the menu entries of one kind, in menu order.
ChoiceValues(kind) ==
  LET chosen == SelectSeq(choices, LAMBDA c : c.kind = kind)
  IN [k \in 1..Len(chosen) |-> chosen[k].value]

\* The positions of the menu entries of one kind.
ChoicePositions(kind) == {k \in 1..Len(choices) : choices[k].kind = kind}

\* The members of all groups shown in the menu, group after group.
RECURSIVE Flat(_)
Flat(seqs) == IF seqs = <<>> THEN <<>> ELSE Head(seqs).files \o Flat(Tail(seqs))

\* C21: grouping partitions the listing.  Every entry is held once, by one
\* group or by the ungrouped list, and is shown once in the menu; a file
\* whose name matches a pattern is a member of exactly one group; a
\* directory (even one whose name matches) and a file that matches no
\* pattern is ungrouped and in no group.
C21_GroupingPartitions ==
  menuAt = "list" =>
    /\ \A k \in 1..Len(items) :
         LET x == items[k] IN
           /\ IF ~x.isDirectory /\ MatchesPattern(x.name)
              THEN /\ Cardinality(GroupsOf(x)) = 1
                   /\ \A b \in GroupsOf(x) : Occurrences(fileGroups[b], x) = 1
                   /\ Occurrences(nonGroupedItems, x) = 0
                   /\ Occurrences(Flat(ChoiceValues("group")), x) = 1
                   /\ Occurrences(ChoiceValues("file"), x) = 0
              ELSE /\ GroupsOf(x) = {}
                   /\ Occurrences(nonGroupedItems, x) = 1
                   /\ Occurrences(Flat(ChoiceValues("group")), x) = 0
                   /\ Occurrences(ChoiceValues("directory"), x)
                        + Occurrences(ChoiceValues("file"), x) = 1
    /\ \A b \in DOMAIN fileGroups : \A k \in 1..Len(fileGroups[b]) :
         Occurrences(items, fileGroups[b][k]) = 1
    /\ \A k \in 1..Len(nonGroupedItems) :
         Occurrences(items, nonGroupedItems[k]) = 1

\* A listing with a file in a group, a directory whose name matches a
\* pattern and a file that matches none.
C21_Witness ==
  /\ menuAt = "list"
  /\ DOMAIN fileGroups # {}
  /\ \E k \in 1..Len(items) : items[k].isDirectory /\ MatchesPattern(items[k].name)
  /\ \E k \in 1..Len(items) : ~items[k].isDirectory /\ ~MatchesPattern(items[k].name)

\* C22: two files whose names match are members of the same group exactly
\* when their derived base names are equal, whichever pattern each matched,
\* and the key of a group is the derived base name of each of its members.
C22_GroupedByBaseName ==
  menuAt = "list" =>
    /\ \A i, j \in 1..Len(items) :
         (/\ ~items[i].isDirectory /\ MatchesPattern(items[i].name)
          /\ ~items[j].isDirectory /\ MatchesPattern(items[j].name))
         => ((GroupsOf(items[i]) \cap GroupsOf(items[j]) # {})
              <=> (Match(items[i].name).base = Match(items[j].name).base))
    /\ \A b \in DOMAIN fileGroups : \A k \in 1..Len(fileGroups[b]) :
         Match(fileGroups[b][k].name).base = b

\* One group holds a name.log.date.number member and a name.log.date
\* member, and another group exists beside it.
C22_Witness ==
  /\ menuAt = "list"
  /\ Cardinality(DOMAIN fileGroups) = 2
  /\ \E b \in DOMAIN fileGroups : \E i, j \in 1..Len(fileGroups[b]) :
       /\ logPattern1(fileGroups[b][i].name).ok
       /\ ~logPattern1(fileGroups[b][j].name).ok

\* C23: in the menu every directory comes before every ungrouped file, and
\* the directories, and the ungrouped files, are in the order of the listing.
C23_DirectoriesFirstInListingOrder ==
  menuAt = "list" =>
    /\ \A d \in ChoicePositions("directory") : \A f \in ChoicePositions("file") :
         ~MatchesPattern(choices[f].value.name) => d < f
    /\ ChoiceValues("directory") = SelectSeq(items, LAMBDA x : x.isDirectory)
    /\ SelectSeq(ChoiceValues("file"), LAMBDA x : ~MatchesPattern(x.name))
         = SelectSeq(items, LAMBDA x : ~x.isDirectory /\ ~MatchesPattern(x.name))

\* The listing holds an ungrouped file before two directories; the menu
\* shows the directories first, in the order of the listing.
C23_Witness ==
  /\ menuAt = "list"
  /\ Len(items) = 3
  /\ ~items[1].isDirectory /\ ~MatchesPattern(items[1].name)
  /\ items[2].isDirectory
  /\ items[3].isDirectory
  /\ ChoiceValues("directory") = <<items[2], items[3]>>
  /\ ChoiceValues("file") = <<items[1]>>

\* The menu entry of group b, when it is shown as a group.
GroupChoices(b) ==
  {k \in ChoicePositions("group") : choices[k].value.name = b}

\* C24: a group with exactly one member whose name equals the group's base
\* name is shown as a plain file entry and not as a group; every other
\* group, every other single-member group included, is shown as a group.
C24_SingleFileDemotion ==
  menuAt = "list" =>
    \A b \in DOMAIN fileGroups :
      IF Len(fileGroups[b]) = 1 /\ fileGroups[b][1].name = b
      THEN /\ GroupChoices(b) = {}
           /\ Occurrences(ChoiceValues("file"), fileGroups[b][1]) = 1
      ELSE /\ Cardinality(GroupChoices(b)) = 1
           /\ \A k \in GroupChoices(b) : choices[k].value.files = fileGroups[b]
           /\ \A k \in 1..Len(fileGroups[b]) :
                Occurrences(ChoiceValues("file"), fileGroups[b][k]) = 0

\* A group of one member is shown as a group.
C24_Witness ==
  /\ menuAt = "list"
  /\ \E b \in DOMAIN fileGroups :
       /\ Len(fileGroups[b]) = 1
       /\ GroupChoices(b) # {}

\* No group is ever demoted: a member's name carries the date after the
\* base name, so it differs from the group's name.
NoGroupIsDemoted ==
  \A b \in DOMAIN fileGroups : ~IsDemoted(b, fileGroups[b])

\* ----------------------------------------------------------- static viewer
\* isJsonFile, isLogFile, formatJson, highlightLogLine and the head of
\* displayContentInPager (displayFile.js 89-224).  Text is a sequence of
\* characters.  The characters of the texts below are letters, digits,
\* "-", ":", ".", " ", "[", "]", "{", "}" and the line feed; there is no
\* quote and no comma, so a JSON document over them is a number, a literal,
\* the empty object, or an array of at most one value.
Lower(c) ==
  CASE c = "E" -> "e" [] c = "R" -> "r" [] c = "O" -> "o" [] c = "J" -> "j"
    [] c = "S" -> "s" [] c = "N" -> "n" [] c = "T" -> "t" [] OTHER -> c

ToLower(s) == [k \in 1..Len(s) |-> Lower(s[k])]

\* A pattern is a sequence of character classes; it matches at i when every
\* class holds the character it meets.
MatchAt(s, i, pattern) ==
  /\ i + Len(pattern) - 1 <= Len(s)
  /\ \A k \in 1..Len(pattern) : s[i + k - 1] \in pattern[k]

\* pattern.test(s)
Test(s, pattern) == \E i \in 1..Len(s) : MatchAt(s, i, pattern)

Literal(word) == [k \in 1..Len(word) |-> {word[k]}]

\* /word1|word2|.../i.test(s)
TestWords(s, words) ==
  LET lower == ToLower(s) IN \E w \in words : Test(lower, Literal(w))

DigitClass == {Digits[d] : d \in 1..10}

\* \d{4}-\d{2}-\d{2}
DatePattern ==
  <<DigitClass, DigitClass, DigitClass, DigitClass, {"-"}, DigitClass,
    DigitClass, {"-"}, DigitClass, DigitClass>>

\* \d{2}:\d{2}:\d{2}
TimePattern ==
  <<DigitClass, DigitClass, {":"}, DigitClass, DigitClass, {":"}, DigitClass,
    DigitClass>>

\* s ends with a dot and one of the extensions, whatever the case.
HasExtension(name, extensions) ==
  \E e \in extensions :
    /\ Len(name) >= Len(e) + 1
    /\ SubSeq(ToLower(name), Len(name) - Len(e), Len(name)) = <<".">> \o e

\* The number of characters of s from i on that are in class.
RECURSIVE Run(_, _, _)
Run(s, i, class) ==
  IF i > Len(s) \/ ~(s[i] \in class) THEN 0 ELSE 1 + Run(s, i + 1, class)

\* -- JSON.parse
JsonWhiteSpace == {" ", "\n"}

SkipWhiteSpace(s, i) == i + Run(s, i, JsonWhiteSpace)

\* A number that starts at i: the index after it, or 0.
ParseNumber(s, i) ==
  LET d == IF s[i] = "-" THEN i + 1 ELSE i
      int == IF d > Len(s) \/ ~IsDigit(s[d]) THEN 0
             ELSE IF s[d] = "0" THEN d + 1
             ELSE d + Run(s, d, DigitClass)
      frac == IF int # 0 /\ int <= Len(s) /\ s[int] = "."
                 /\ Run(s, int + 1, DigitClass) > 0
              THEN int + 1 + Run(s, int + 1, DigitClass) ELSE int
      sign == IF frac # 0 /\ frac + 1 <= Len(s) /\ s[frac + 1] \in {"+", "-"}
              THEN frac + 2 ELSE frac + 1
      exp == IF frac # 0 /\ frac <= Len(s) /\ s[frac] \in {"e", "E"}
                /\ Run(s, sign, DigitClass) > 0
             THEN sign + Run(s, sign, DigitClass) ELSE frac
  IN exp

\* A value that starts at i: the index after it, or 0 when there is none.
RECURSIVE ParseValue(_, _)
ParseValue(s, i) ==
  IF i > Len(s) THEN 0
  ELSE IF s[i] = "{"
       THEN LET j == SkipWhiteSpace(s, i + 1) IN
              IF j <= Len(s) /\ s[j] = "}" THEN j + 1 ELSE 0
  ELSE IF s[i] = "["
       THEN LET j == SkipWhiteSpace(s, i + 1) IN
              IF j <= Len(s) /\ s[j] = "]" THEN j + 1
              ELSE LET e == ParseValue(s, j)
                       k == SkipWhiteSpace(s, e)
                   IN IF e # 0 /\ k <= Len(s) /\ s[k] = "]" THEN k + 1 ELSE 0
  ELSE IF s[i] = "-" \/ IsDigit(s[i]) THEN ParseNumber(s, i)
  ELSE IF MatchAt(s, i, Literal(<<"t", "r", "u", "e">>)) THEN i + 4
  ELSE IF MatchAt(s, i, Literal(<<"f", "a", "l", "s", "e">>)) THEN i + 5
  ELSE IF MatchAt(s, i, Literal(<<"n", "u", "l", "l">>)) THEN i + 4
  ELSE 0

\* JSON.parse(text) returns; otherwise it throws a SyntaxError.
JsonParses(text) ==
  LET e == ParseValue(text, SkipWhiteSpace(text, 1))
  IN e # 0 /\ SkipWhiteSpace(text, e) > Len(text)

\* What a function call comes to: a value returned or an exception raised.
Returned(value) == [raised |-> FALSE, value |-> value]

Raised == [raised |-> TRUE, value |-> FALSE]

\* -- isJsonFile (displayFile.js 179-190)
isJsonFile(text, name) ==
  IF HasExtension(name, {<<"j", "s", "o", "n">>}) THEN Returned(TRUE)
  ELSE IF JsonParses(text)
       THEN Returned(Trim(text) # <<>> /\ Trim(text)[1] \in {"{", "["})
  ELSE Returned(FALSE)

\* -- isLogFile (displayFile.js 150-171)
\* /INFO|DEBUG|ERROR|WARN|WARNING/i
LogKeywords == {<<"i", "n", "f", "o">>, <<"d", "e", "b", "u", "g">>, <<"e", "r", "r", "o", "r">>, <<"w", "a", "r", "n">>, <<"w", "a", "r", "n", "i", "n", "g">>}

\* One of logPatterns matches the line.
IsLogLine(line) ==
  \/ TestWords(line, LogKeywords)
  \/ Test(line, DatePattern \o <<{"T"}>> \o TimePattern)
  \/ Test(line, <<{"["}>> \o DatePattern \o <<{"]"}>>)

\* content.split('\n')
Lines(text) == LET parts == Split(text) IN [k \in 1..Len(parts) |-> parts[k].text]

isLogFile(text, name) ==
  IF HasExtension(name, {<<"l", "o", "g">>, <<"t", "x", "t">>}) THEN Returned(TRUE)
  ELSE LET lines == Lines(text)
           sampleLines == SubSeq(lines, 1, Min(20, Len(lines)))
           logLineCount == Cardinality({k \in 1..Len(sampleLines) :
                                          IsLogLine(sampleLines[k])})
       IN Returned(logLineCount > 3)

\* formatJson as it would be without its try/catch.
formatJsonNoCatch(text) ==
  IF JsonParses(text) THEN Returned([kind |-> "formatted", text |-> text])
  ELSE Raised

\* -- formatJson (displayFile.js 130-142).  The pretty-printed and colored
\* document is kept as the record that names the text it was made from.
formatJson(text) ==
  IF JsonParses(text) THEN Returned([kind |-> "formatted", text |-> text])
  ELSE Returned([kind |-> "original", text |-> text])

\* -- highlightLogLine (displayFile.js 89-123)
\* A line with a style on the spans <<from, to>> of its characters.  chalk
\* returns the empty string as it is.
StyledLine(class, style, line) ==
  [class |-> class, style |-> style, text |-> line,
   spans |-> IF line = <<>> THEN <<>> ELSE <<<<1, Len(line)>>>>]

Unstyled(line) == [class |-> "none", style |-> "none", text |-> line, spans |-> <<>>]

ErrorWords == {<<"e", "r", "r", "o", "r">>, <<"e", "x", "c", "e", "p", "t", "i", "o", "n">>, <<"f", "a", "i", "l">>, <<"f", "a", "t", "a", "l">>}

WarningWords == {<<"w", "a", "r", "n">>, <<"w", "a", "r", "n", "i", "n", "g">>, <<"c", "a", "u", "t", "i", "o", "n">>}

InfoWords == {<<"i", "n", "f", "o">>, <<"i", "n", "f", "o", "r", "m", "a", "t", "i", "o", "n">>, <<"n", "o", "t", "i", "c", "e">>}

DebugWords == {<<"d", "e", "b", "u", "g">>, <<"t", "r", "a", "c", "e">>, <<"v", "e", "r", "b", "o", "s", "e">>}

SuccessWords == {<<"s", "u", "c", "c", "e", "s", "s">>, <<"s", "u", "c", "c", "e", "e", "d">>, <<"c", "o", "m", "p", "l", "e", "t", "e", "d">>, <<"o", "k">>}

\* The matches of
\* /(\d{4}-\d{2}-\d{2}[T\s]\d{2}:\d{2}:\d{2}(?:\.\d+)?(?:[Z+-][\d:]+)?)/g
\* in s from i on, left to right.
RECURSIVE TimestampSpans(_, _)
TimestampSpans(s, i) ==
  IF i > Len(s) THEN <<>>
  ELSE IF MatchAt(s, i, DatePattern \o <<{"T", " ", "\n"}>> \o TimePattern)
       THEN LET core == i + 18
                frac == IF core + 1 <= Len(s) /\ s[core + 1] = "."
                           /\ Run(s, core + 2, DigitClass) > 0
                        THEN core + 1 + Run(s, core + 2, DigitClass) ELSE core
                zone == IF frac + 1 <= Len(s) /\ s[frac + 1] \in {"Z", "+", "-"}
                           /\ Run(s, frac + 2, DigitClass \cup {":"}) > 0
                        THEN frac + 1 + Run(s, frac + 2, DigitClass \cup {":"})
                        ELSE frac
            IN <<<<i, zone>>>> \o TimestampSpans(s, zone + 1)
  ELSE TimestampSpans(s, i + 1)

\* highlightLogLine as it would be if the timestamp test came first.
highlightLogLineTimestampFirst(line) ==
  IF Test(line, DatePattern) \/ Test(line, TimePattern)
  THEN [class |-> "timestamp", style |-> "cyan", text |-> line,
        spans |-> TimestampSpans(line, 1)]
  ELSE IF TestWords(line, ErrorWords) THEN StyledLine("error", "red.bold", line)
  ELSE IF TestWords(line, WarningWords) THEN StyledLine("warning", "yellow", line)
  ELSE IF TestWords(line, InfoWords) THEN StyledLine("info", "blue", line)
  ELSE IF TestWords(line, DebugWords) THEN StyledLine("debug", "cyan", line)
  ELSE IF TestWords(line, SuccessWords) THEN StyledLine("success", "green", line)
  ELSE StyledLine("default", "whiteBright", line)

highlightLogLine(line) ==
  IF TestWords(line, ErrorWords) THEN StyledLine("error", "red.bold", line)
  ELSE IF TestWords(line, WarningWords) THEN StyledLine("warning", "yellow", line)
  ELSE IF TestWords(line, InfoWords) THEN StyledLine("info", "blue", line)
  ELSE IF TestWords(line, DebugWords) THEN StyledLine("debug", "cyan", line)
  ELSE IF TestWords(line, SuccessWords) THEN StyledLine("success", "green", line)
  ELSE IF Test(line, DatePattern) \/ Test(line, TimePattern)
       THEN [class |-> "timestamp", style |-> "cyan", text |-> line,
             spans |-> TimestampSpans(line, 1)]
  ELSE StyledLine("default", "whiteBright", line)

\* -- the texts and names a file on display can have
PlainLine == <<"x">>

LineSamples ==
  { <<>>,
    <<"x">>,
    <<"E", "R", "R", "O", "R", " ", "x">>,
    <<"2", "0", "2", "4", "-", "0", "1", "-", "0", "1", "T", "0", "0", ":", "0", "0", ":", "0", "0", " ", "e", "r", "r", "o", "r">>,
    <<"2", "0", "2", "4", "-", "0", "1", "-", "0", "1", " ", "0", "0", ":", "0", "0", ":", "0", "0", " ", "x">>,
    <<"2", "0", "2", "4", "-", "0", "1", "-", "0", "1">>,
    <<"[", "2", "0", "2", "4", "-", "0", "1", "-", "0", "1", "]">>,
    <<"f", "a", "t", "a", "l">>,
    <<"i", "n", "f", "o", " ", "w", "a", "r", "n">>,
    <<"d", "e", "b", "u", "g", " ", "o", "k">>,
    <<"b", "o", "o", "k">>,
    <<"{">>,
    <<"}">>,
    <<"[", "1", "]">>,
    <<"n", "u", "l", "l">> }

ViewedNames ==
  { <<"a", ".", "j", "s", "o", "n">>,
    <<"a", ".", "J", "S", "O", "N">>,
    <<"a", ".", "l", "o", "g">>,
    <<"a", ".", "t", "x", "t">>,
    <<"a", ".", "d", "a", "t">>,
    <<"j", "s", "o", "n">> }

\* Plain lines between the head of the text and its last line: none, or as
\* many as put the last line at or behind the twentieth place.
Paddings == {0, 16, 17}

Repeat(line, n) == [k \in 1..n |-> line]

\* lines.join('\n')
RECURSIVE JoinLines(_)
JoinLines(lines) ==
  IF lines = <<>> THEN <<>>
  ELSE IF Len(lines) = 1 THEN lines[1]
  ELSE lines[1] \o <<"\n">> \o JoinLines(Tail(lines))

\* The last line of a text, when it is not one more copy of the first.
LastLines ==
  { <<>>,
    <<"E", "R", "R", "O", "R", " ", "x">>,
    <<"f", "a", "t", "a", "l">>,
    <<"}">> }

\* Up to MaxRun copies of one line, the padding, and one last line.
Contents ==
  { JoinLines(Repeat(a, m) \o Repeat(PlainLine, p) \o <<c>>) :
      a \in LineSamples, m \in 0..MaxRun, p \in Paddings, c \in LastLines }

\* displayContentInPager as it would be if the log test decided first.
DisplayContentInPagerLogFirst(text, name) ==
  /\ fileType = "none"
  /\ content' = text
  /\ fileName' = name
  /\ LET isJson == isJsonFile(text, name)
         isLog == isLogFile(text, name)
         lines == Lines(text)
     IN /\ detected' = [isJson |-> isJson.value, isLog |-> isLog.value]
        /\ fileType' = IF isLog.value THEN "LOG"
                       ELSE IF isJson.value THEN "JSON" ELSE "TEXT"
        /\ formattedLines' =
             [k \in 1..Len(lines) |-> StyledLine("text", "whiteBright", lines[k])]
  /\ UNCHANGED <<searchMode, searchText, searchMatches>>
  /\ UNCHANGED <<sessionVars, navVars, groupVars, cacheVars, dirVars>>

\* displayContentInPager up to the loading of the widget: the file type is
\* chosen and the lines are formatted for it (displayFile.js 199-291).  An
\* exception out of a helper leaves the function before a type is shown.
DisplayContentInPager(text, name) ==
  /\ fileType = "none"
  /\ content' = text
  /\ fileName' = name
  /\ LET isJson == isJsonFile(text, name)
         isLog == isLogFile(text, name)
         formatted == formatJson(text)
         lines == Lines(text)
     IN IF isJson.raised \/ isLog.raised \/ (isJson.value /\ formatted.raised)
        THEN /\ detected' = [isJson |-> FALSE, isLog |-> FALSE]
             /\ fileType' = "raised"
             /\ formattedLines' = <<>>
        ELSE /\ detected' = [isJson |-> isJson.value, isLog |-> isLog.value]
             /\ fileType' = IF isJson.value THEN "JSON"
                            ELSE IF isLog.value THEN "LOG" ELSE "TEXT"
             /\ formattedLines' =
                  IF isJson.value
                  THEN IF formatted.value.kind = "formatted"
                       THEN <<[class |-> "json", style |-> "json",
                               text |-> formatted.value.text, spans |-> <<>>]>>
                       ELSE LET original == Lines(formatted.value.text)
                            IN [k \in 1..Len(original) |-> Unstyled(original[k])]
                  ELSE IF isLog.value
                  THEN [k \in 1..Len(lines) |-> highlightLogLine(lines[k])]
                  ELSE [k \in 1..Len(lines) |->
                          StyledLine("text", "whiteBright", lines[k])]
  /\ UNCHANGED <<searchMode, searchText, searchMatches>>
  /\ UNCHANGED <<sessionVars, navVars, groupVars, cacheVars, dirVars>>

\* The pager is left (q, r or s; displayFile.js 304-346).
ClosePager ==
  /\ fileType # "none"
  /\ content' = <<>>
  /\ fileName' = <<>>
  /\ detected' = [isJson |-> FALSE, isLog |-> FALSE]
  /\ fileType' = "none"
  /\ formattedLines' = <<>>
  /\ searchMode' = FALSE
  /\ searchText' = <<>>
  /\ searchMatches' = <<>>
  /\ UNCHANGED <<sessionVars, navVars, groupVars, cacheVars, dirVars>>

NextPager ==
  \/ /\ fileType = "none"
     /\ \E text \in Contents : \E name \in ViewedNames :
          DisplayContentInPager(text, name)
  \/ ClosePager

SpecPager == InitAtRest /\ [][NextPager]_vars

\* ------------------------------------------------------------ C25 .. C29
\* The text is a JSON document whose top-level value is an object or an
\* array.
IsObjectOrArray(text) ==
  /\ JsonParses(text)
  /\ text[SkipWhiteSpace(text, 1)] \in {"{", "["}

Structured(text, name) == HasExtension(name, {<<"j", "s", "o", "n">>}) \/ IsObjectOrArray(text)

LogLike(text, name) == isLogFile(text, name).value

Displayed == fileType # "none"

\* C25: a file is shown as JSON when its name ends in .json or its content
\* is a JSON object or array; otherwise as a log when it is log-like;
\* otherwise as plain text.  A file that is both is shown as JSON.
C25_ClassificationPrecedence ==
  Displayed =>
    fileType = IF Structured(content, fileName) THEN "JSON"
               ELSE IF LogLike(content, fileName) THEN "LOG"
               ELSE "TEXT"

\* A .log file that holds a JSON object is on display, as JSON.
C25_Witness ==
  /\ fileType = "JSON"
  /\ HasExtension(fileName, {<<"l", "o", "g">>})
  /\ detected.isLog
  /\ IsObjectOrArray(content)

\* The keywords the specification lists for the scan of a text.
ListedKeywords ==
  {<<"i", "n", "f", "o">>, <<"d", "e", "b", "u", "g">>, <<"e", "r", "r", "o", "r">>, <<"w", "a", "r", "n">>, <<"w", "a", "r", "n", "i", "n", "g">>, <<"n", "o", "t", "i", "c", "e">>, <<"t", "r", "a", "c", "e">>,
   <<"f", "a", "t", "a", "l">>, <<"e", "x", "c", "e", "p", "t", "i", "o", "n">>, <<"f", "a", "i", "l">>}

ListedLogLine(line) ==
  \/ TestWords(line, ListedKeywords)
  \/ Test(line, DatePattern \o <<{"T"}>> \o TimePattern)
  \/ Test(line, <<{"["}>> \o DatePattern \o <<{"]"}>>)

\* How many of the first 20 lines of the text are log lines as listed.
ListedLogLineCount(text) ==
  LET lines == Lines(text)
  IN Cardinality({k \in 1..Min(20, Len(lines)) : ListedLogLine(lines[k])})

\* C26: a file whose name does not end in .log or .txt is log-like exactly
\* when more than 3 of its first 20 lines hold one of the keywords info,
\* debug, error, warn, warning, notice, trace, fatal, exception, fail, an
\* ISO timestamp or a bracketed date.
C26_LogLikeByScan ==
  (Displayed /\ ~HasExtension(fileName, {<<"l", "o", "g">>, <<"t", "x", "t">>})) =>
    (detected.isLog <=> ListedLogLineCount(content) > 3)

\* C27: isJsonFile, isLogFile and formatJson never raise; a text that does
\* not parse fails the JSON test only, so that the log test and then plain
\* text decide its type; formatJson gives back the text it was given,
\* unchanged and unstyled, when the text does not parse, and so a .json file
\* that does not parse is shown as JSON with its own lines, unstyled.
C27_NoExceptionOnBadJson ==
  Displayed =>
    /\ fileType # "raised"
    /\ ~isJsonFile(content, fileName).raised
    /\ ~isLogFile(content, fileName).raised
    /\ ~formatJson(content).raised
    /\ ~JsonParses(content) =>
         /\ ~HasExtension(fileName, {<<"j", "s", "o", "n">>}) =>
              fileType = IF LogLike(content, fileName) THEN "LOG" ELSE "TEXT"
         /\ formatJson(content).value = [kind |-> "original", text |-> content]
         /\ HasExtension(fileName, {<<"j", "s", "o", "n">>}) =>
              /\ fileType = "JSON"
              /\ formattedLines =
                   [k \in 1..Len(Lines(content)) |-> Unstyled(Lines(content)[k])]

\* A .json file of several lines that is no JSON document is on display.
C27_Witness ==
  /\ fileType = "JSON"
  /\ HasExtension(fileName, {<<"j", "s", "o", "n">>})
  /\ ~JsonParses(content)
  /\ Len(formattedLines) > 1
  /\ formattedLines[1] = Unstyled(Lines(content)[1])

\* The classes of highlightLogLine, in the order of the specification, each
\* with its test and its style.
ClassOrder ==
  <<[class |-> "error", words |-> ErrorWords, style |-> "red.bold"],
    [class |-> "warning", words |-> WarningWords, style |-> "yellow"],
    [class |-> "info", words |-> InfoWords, style |-> "blue"],
    [class |-> "debug", words |-> DebugWords, style |-> "cyan"],
    [class |-> "success", words |-> SuccessWords, style |-> "green"],
    [class |-> "timestamp", words |-> {}, style |-> "cyan"],
    [class |-> "default", words |-> {}, style |-> "whiteBright"]>>

\* The line contains the pattern of the class at place n.
Contains(line, n) ==
  IF ClassOrder[n].class = "timestamp"
  THEN Test(line, DatePattern) \/ Test(line, TimePattern)
  ELSE IF ClassOrder[n].class = "default" THEN TRUE
  ELSE \E w \in ClassOrder[n].words :
         \E i \in 1..Len(line) :
           /\ i + Len(w) - 1 <= Len(line)
           /\ ToLower(SubSeq(line, i, i + Len(w) - 1)) = w

FirstClass(line) ==
  CHOOSE n \in 1..Len(ClassOrder) :
    Contains(line, n) /\ \A m \in 1..(n - 1) : ~Contains(line, m)

\* The line holds a keyword of the first five classes.
HasKeyword(line) == FirstClass(line) <= 5

\* C28: every line of a log on display has the class and the style of the
\* first class, in the order error, warning, info, debug, success,
\* timestamp, default, whose pattern it contains; a keyword class styles
\* the whole line, so a line with a timestamp and an error keyword is in
\* the error style from end to end.
C28_FirstMatchWins ==
  fileType = "LOG" =>
    \A k \in 1..Len(formattedLines) :
      LET shown == formattedLines[k]
          first == ClassOrder[FirstClass(shown.text)]
      IN /\ shown.class = first.class
         /\ shown.style = first.style
         /\ (HasKeyword(shown.text) =>
               shown.spans = <<<<1, Len(shown.text)>>>>)

\* A line with a full timestamp and an error keyword is on display, red.
C28_Witness ==
  /\ fileType = "LOG"
  /\ \E k \in 1..Len(formattedLines) :
       /\ TimestampSpans(formattedLines[k].text, 1) # <<>>
       /\ TestWords(formattedLines[k].text, ErrorWords)
       /\ formattedLines[k].class = "error"
       /\ formattedLines[k].spans = <<<<1, Len(formattedLines[k].text)>>>>

\* C29: no non-empty line of a log on display is without any style.
C29_NoLineUnstyled ==
  fileType = "LOG" =>
    \A k \in 1..Len(formattedLines) :
      formattedLines[k].text # <<>> => formattedLines[k].spans # <<>>

\* ------------------------------------------- configuration, client cache
\* utils/config.js and services/azureFileService.js.  config.accounts is the
\* sequence of its entries in the order of the file, which is the order of
\* Object.keys; fileServiceClients maps account names to clients.
AccountEntries ==
  { [key |-> "prod", accountName |-> "store", accountKey |-> "key1"],
    [key |-> "dev", accountName |-> "store", accountKey |-> "key2"],
    [key |-> "lab", accountName |-> "lab", accountKey |-> "key3"],
    [key |-> "bare", accountName |-> "bare", accountKey |-> ""] }

\* Accounts of a configuration file: entries with keys all different.
AccountLists(k) ==
  { a \in UNION { [1..n -> AccountEntries] : n \in 0..k } :
      \A i, j \in 1..Len(a) : a[i].key = a[j].key => i = j }

\* JSON.parse(fileContent) of a configuration file that parses.
ConfigFiles ==
  { [currentAccount |-> c, accounts |-> a] :
      c \in {"", "dev", "gone", "constructor"},
      a \in AccountLists(MaxAccounts) }

\* Object.keys(accounts)
Keys(accounts) == [k \in 1..Len(accounts) |-> accounts[k].key]

\* key is one of Object.keys(accounts).
OwnKey(accounts, key) == \E k \in 1..Len(accounts) : accounts[k].key = key

\* Names that every object inherits from Object.prototype; accounts is a
\* plain object made by JSON.parse.
InheritedNames == {"constructor"}

\* accounts[key] is truthy: an entry of the file, or an inherited function.
HasAccount(accounts, key) == OwnKey(accounts, key) \/ key \in InheritedNames

\* accounts[key]; an inherited function has no accountName and no accountKey.
AccountOf(accounts, key) ==
  IF OwnKey(accounts, key)
  THEN accounts[CHOOSE k \in 1..Len(accounts) : accounts[k].key = key]
  ELSE [key |-> key, accountName |-> "", accountKey |-> ""]

DefaultConfig == [currentAccount |-> "", accounts |-> <<>>]

NoClient == [id |-> 0, accountName |-> "", accountKey |-> ""]

Loaded == ~exited /\ config # DefaultConfig

\* -- loadConfig (config.js 17-63) on a file that exists and parses
LoadConfig(loadedConfig) ==
  /\ ~exited
  /\ config = DefaultConfig
  /\ IF Len(loadedConfig.accounts) > 0
     THEN /\ config' =
               IF loadedConfig.currentAccount = ""
                  \/ ~HasAccount(loadedConfig.accounts, loadedConfig.currentAccount)
               THEN [loadedConfig EXCEPT
                       !.currentAccount = Keys(loadedConfig.accounts)[1]]
               ELSE loadedConfig
          /\ UNCHANGED exited
     ELSE /\ exited' = TRUE
          /\ UNCHANGED config
  /\ UNCHANGED <<switched, fileServiceClients, clientsBuilt, lastCall>>
  /\ UNCHANGED <<sessionVars, navVars, groupVars, pagerVars, dirVars>>

\* loadConfig on a file that is missing or does not parse: process.exit(1).
LoadConfigFail ==
  /\ ~exited
  /\ config = DefaultConfig
  /\ exited' = TRUE
  /\ UNCHANGED <<config, switched, fileServiceClients, clientsBuilt, lastCall>>
  /\ UNCHANGED <<sessionVars, navVars, groupVars, pagerVars, dirVars>>

\* -- switchAccount (config.js 89-103); the file may fail to be written.
\* index.js 57-69 calls it with a name picked from getAvailableAccounts.
SwitchAccount(accountName, written) ==
  /\ Loaded
  /\ IF HasAccount(config.accounts, accountName)
     THEN config' = [config EXCEPT !.currentAccount = accountName]
     ELSE UNCHANGED config
  /\ switched' = [accountName |-> accountName,
                  result |-> HasAccount(config.accounts, accountName) /\ written]
  /\ UNCHANGED <<exited, fileServiceClients, clientsBuilt, lastCall>>
  /\ UNCHANGED <<sessionVars, navVars, groupVars, pagerVars, dirVars>>

\* -- getCurrentAccount (config.js 77-82) throws
NoCurrentAccount ==
  config.currentAccount = "" \/ ~HasAccount(config.accounts, config.currentAccount)

\* getFileServiceClient as it would be if it did not look at noCache.
GetFileServiceClientAlwaysCaching(noCache) ==
  /\ Loaded
  /\ clientsBuilt < MaxClients
  /\ IF NoCurrentAccount
     THEN /\ lastCall' = [noCache |-> noCache, outcome |-> "threw", client |-> NoClient]
          /\ UNCHANGED <<fileServiceClients, clientsBuilt>>
     ELSE LET account == AccountOf(config.accounts, config.currentAccount)
              accountName == account.accountName
              client == [id |-> clientsBuilt + 1, accountName |-> accountName,
                         accountKey |-> account.accountKey]
          IN IF accountName \in DOMAIN fileServiceClients
             THEN /\ lastCall' = [noCache |-> noCache, outcome |-> "cached",
                                  client |-> fileServiceClients[accountName]]
                  /\ UNCHANGED <<fileServiceClients, clientsBuilt>>
             ELSE IF account.accountName = "" \/ account.accountKey = ""
             THEN /\ lastCall' = [noCache |-> noCache, outcome |-> "threw",
                                  client |-> NoClient]
                  /\ UNCHANGED <<fileServiceClients, clientsBuilt>>
             ELSE /\ clientsBuilt' = clientsBuilt + 1
                  /\ fileServiceClients' =
                       [n \in DOMAIN fileServiceClients \cup {accountName} |->
                          IF n = accountName THEN client ELSE fileServiceClients[n]]
                  /\ lastCall' = [noCache |-> noCache, outcome |-> "built",
                                  client |-> client]
  /\ UNCHANGED <<config, exited, switched>>
  /\ UNCHANGED <<sessionVars, navVars, groupVars, pagerVars, dirVars>>

\* -- getFileServiceClient (azureFileService.js 11-41), also as reached
\* through getShareClient (49-52).  lastCall keeps how the call ended: with
\* the cached client, with a client built by it, or with an exception.
GetFileServiceClient(noCache) ==
  /\ Loaded
  /\ clientsBuilt < MaxClients
  /\ IF NoCurrentAccount
     THEN /\ lastCall' = [noCache |-> noCache, outcome |-> "threw", client |-> NoClient]
          /\ UNCHANGED <<fileServiceClients, clientsBuilt>>
     ELSE LET account == AccountOf(config.accounts, config.currentAccount)
              accountName == account.accountName
              client == [id |-> clientsBuilt + 1, accountName |-> accountName,
                         accountKey |-> account.accountKey]
          IN IF ~noCache /\ accountName \in DOMAIN fileServiceClients
             THEN /\ lastCall' = [noCache |-> noCache, outcome |-> "cached",
                                  client |-> fileServiceClients[accountName]]
                  /\ UNCHANGED <<fileServiceClients, clientsBuilt>>
             ELSE IF account.accountName = "" \/ account.accountKey = ""
             THEN /\ lastCall' = [noCache |-> noCache, outcome |-> "threw",
                                  client |-> NoClient]
                  /\ UNCHANGED <<fileServiceClients, clientsBuilt>>
             ELSE /\ clientsBuilt' = clientsBuilt + 1
                  /\ fileServiceClients' =
                       IF noCache THEN fileServiceClients
                       ELSE [n \in DOMAIN fileServiceClients \cup {accountName} |->
                               IF n = accountName THEN client
                               ELSE fileServiceClients[n]]
                  /\ lastCall' = [noCache |-> noCache, outcome |-> "built",
                                  client |-> client]
  /\ UNCHANGED <<config, exited, switched>>
  /\ UNCHANGED <<sessionVars, navVars, groupVars, pagerVars, dirVars>>

\* The names switchAccount is called with: the configured accounts, and a
\* name that is none.
SwitchNames == {config.accounts[k].key : k \in 1..Len(config.accounts)} \cup {"gone"}

NextCache ==
  \/ \E loadedConfig \in ConfigFiles : LoadConfig(loadedConfig)
  \/ LoadConfigFail
  \/ \E accountName \in SwitchNames : \E written \in BOOLEAN :
       SwitchAccount(accountName, written)
  \/ \E noCache \in BOOLEAN : GetFileServiceClient(noCache)

SpecCache == InitAtRest /\ [][NextCache]_vars

\* ------------------------------------------------------------------- C30
\* The clients the cache holds.
CachedClients == {fileServiceClients[n] : n \in DOMAIN fileServiceClients}

\* The call built a client of its own for the current account.
BuiltAfresh ==
  /\ lastCall'.outcome = "built"
  /\ lastCall'.client.id > clientsBuilt
  /\ ~(lastCall'.client \in CachedClients)
  /\ lastCall'.client.accountName =
       AccountOf(config.accounts, config.currentAccount).accountName
  /\ lastCall'.client.accountKey =
       AccountOf(config.accounts, config.currentAccount).accountKey

\* The current account lacks its name or its key.
CredentialsMissing ==
  \/ NoCurrentAccount
  \/ AccountOf(config.accounts, config.currentAccount).accountName = ""
  \/ AccountOf(config.accounts, config.currentAccount).accountKey = ""

\* C30 as stated: getFileServiceClient(true) always builds a new client for
\* the current account, never returns a cached one, and leaves the cache as
\* it was.
C30_FreshReadAlwaysBuilds ==
  [][GetFileServiceClient(TRUE) =>
       (BuiltAfresh /\ fileServiceClients' = fileServiceClients)]_vars

\* C30: getFileServiceClient(true) leaves the cache as it was and never
\* returns a cached client; it builds a new client for the current account
\* unless that account lacks its name or its key, in which case it throws
\* and builds nothing.
C30_FreshReadBypassesCache ==
  [][GetFileServiceClient(TRUE) =>
       /\ fileServiceClients' = fileServiceClients
       /\ lastCall'.outcome # "cached"
       /\ IF CredentialsMissing
          THEN lastCall'.outcome = "threw" /\ clientsBuilt' = clientsBuilt
          ELSE BuiltAfresh]_vars

\* A fresh read built a client although the cache held one for the account.
C30_Witness ==
  /\ lastCall.noCache
  /\ lastCall.outcome = "built"
  /\ lastCall.client.accountName \in DOMAIN fileServiceClients
  /\ fileServiceClients[lastCall.client.accountName].id < lastCall.client.id

\* ------------------------------------------------------------------- C32
\* The lines the logger writes, each from its first byte to the byte before
\* its line feed.
WrittenLines(w) ==
  LET pieces == Split(BufferToString([p \in 1..6 |-> WrittenByte(w, p)]))
  IN {pieces[k].text : k \in 1..(Len(pieces) - 1)}

\* C32: every line that tailing appends to the view is a complete line of
\* the remote file; a line whose bytes arrive in two poll cycles is shown
\* once, whole.
C32_WholeLinesOnly ==
  \A k \in 1..Len(view) :
    (view[k].kind = "content" /\ view[k].cycle > 0) =>
      view[k].text \in WrittenLines(writer)

\* ------------------------------------------------------------------- C33
\* The second getProperties of poll i is rejected.
RequeryRejected(i) ==
  /\ polls[i].stage = "requery"
  /\ polls'[i].stage = "done"
  /\ ~polls'[i].resynced

\* Poll i ended with its re-query rejected.
RequeryHasFailed(i) ==
  /\ polls[i].stage = "done"
  /\ polls[i].requeried
  /\ ~polls[i].resynced

\* C33: when the re-query of a resync fails, the poll adds one error line,
\* leaves observedLength, pause state, timer and phase as they are and ends
\* as any other callback does; a later tick of the running session starts a
\* poll.
C33_RequeryFailureKeepsPolling ==
  [][/\ \A i \in PollIds :
          RequeryRejected(i) =>
            /\ view' = Append(view,
                 WidgetLine("reseterror", i, <<>>, 0, TransientMsg))
            /\ UNCHANGED <<currentSize, isPaused, timerActive, phase, resyncs>>
     /\ (ticks' # ticks /\ ~isPaused /\ \E i \in PollIds : RequeryHasFailed(i))
          => polls'[ticks'].stage = "props"]_vars

\* A poll ran to its end after the re-query of an earlier poll had failed,
\* and the session is still running.
C33_Witness ==
  /\ phase = "streaming"
  /\ ~isPaused
  /\ timerActive
  /\ \E i, j \in PollIds :
       /\ i < j
       /\ RequeryHasFailed(i)
       /\ \E p \in 1..Len(view) :
            view[p] = WidgetLine("reseterror", i, <<>>, 0, TransientMsg)
       /\ polls[j].stage = "done"
       /\ polls[j].fileSize = currentSize

\* ------------------------------------------------------------------- C34
\* C34: a polling timer is created only by a displayFile call that was asked
\* to stream and found isLogFile true; a call asked to stream a file for
\* which isLogFile is false shows the static pager and creates no timer.
C34_StreamOnlyForLogs ==
  [][/\ timers' # timers /\ timers \subseteq timers' =>
          /\ navAt = "loading"
          /\ streamRequested
          /\ canStream'
          /\ navAt' = "stream"
     /\ (navAt = "loading" /\ streamRequested /\ ~canStream'
         /\ ~(navAt' \in {"loading", "failed"})) =>
          /\ navAt' = "pager"
          /\ ~streamMode'
          /\ UNCHANGED <<timers, sessions>>]_vars

\* 'Stream real-time' was chosen in the group view for a file that is no
\* log: the pager is open and no timer was ever created.
C34_Witness ==
  /\ navAt = "pager"
  /\ navFrom = "group"
  /\ depth = 1
  /\ streamRequested
  /\ ~canStream
  /\ sessions = 0
  /\ timers = {}

\* ------------------------------------------------------------- C35, C36
\* C35: switchAccount returns true only for a configured name whose
\* configuration was written; when it returns false, for an unknown name or
\* a failed write, the current account is what it was before the call.
C35_FailedSwitchChangesNothing ==
  [][\A accountName \in SwitchNames : \A written \in BOOLEAN :
       SwitchAccount(accountName, written) =>
         /\ switched'.result =>
              (OwnKey(config.accounts, accountName) /\ written)
         /\ ~switched'.result =>
              config'.currentAccount = config.currentAccount]_vars

\* C36: once loadConfig has returned, currentAccount is a key of accounts,
\* whatever switchAccount calls follow, and getCurrentAccount does not
\* throw.
C36_CurrentAccountIsConfigured ==
  Loaded =>
    /\ OwnKey(config.accounts, config.currentAccount)
    /\ ~NoCurrentAccount

\* ------------------------------------------------------- search in viewer
\* The search of the file viewer (unnamed/part_001 275-369): "/" opens the
\* search box, enter submits its text, escape closes it.
\* new RegExp(searchText, 'gi') throws a SyntaxError: a class is left open.
Unterminated(text) ==
  \E k \in 1..Len(text) :
    text[k] = "[" /\ \A j \in (k + 1)..Len(text) : text[j] # "]"

\* regex.test(line) of a regular expression with the g flag, for a text
\* without special characters: the search starts at lastIndex; the result
\* is the lastIndex that test leaves, the end of the match found, or 0 when
\* there is no match.
TestFrom(line, text, lastIndex) ==
  LET lower == ToLower(line)
      starts == {i \in (lastIndex + 1)..Len(line) :
                   MatchAt(lower, i, Literal(ToLower(text)))}
  IN IF starts = {} THEN 0
     ELSE (CHOOSE i \in starts : \A j \in starts : i <= j) - 1 + Len(text)

\* contentLines.forEach: the indices pushed for the lines from k on.
RECURSIVE ScanLines(_, _, _, _)
ScanLines(lines, k, text, lastIndex) ==
  IF k > Len(lines) THEN <<>>
  ELSE LET next == TestFrom(lines[k], text, lastIndex) IN
         (IF next # 0 THEN <<k - 1>> ELSE <<>>)
           \o ScanLines(lines, k + 1, text, next)

\* The "/" key (part_001 300-308).
EnterSearch ==
  /\ fileType \in {"JSON", "LOG", "TEXT"}
  /\ ~searchMode
  /\ searchMode' = TRUE
  /\ UNCHANGED <<content, fileName, detected, fileType, formattedLines,
                 searchText, searchMatches>>
  /\ UNCHANGED <<sessionVars, navVars, groupVars, cacheVars, dirVars>>

\* Enter in the search box (part_001 326-363).
SubmitSearch(text) ==
  /\ searchMode
  /\ searchMode' = FALSE
  /\ searchText' = text
  /\ searchMatches' =
       IF text = <<>> \/ Unterminated(text) THEN searchMatches
       ELSE ScanLines(Lines(content), 1, text, 0)
  /\ UNCHANGED <<content, fileName, detected, fileType, formattedLines>>
  /\ UNCHANGED <<sessionVars, navVars, groupVars, cacheVars, dirVars>>

\* Escape in the search box (part_001 366-372).
CancelSearch ==
  /\ searchMode
  /\ searchMode' = FALSE
  /\ UNCHANGED <<content, fileName, detected, fileType, formattedLines,
                 searchText, searchMatches>>
  /\ UNCHANGED <<sessionVars, navVars, groupVars, cacheVars, dirVars>>

SearchTexts == {<<>>, <<"[">>, <<"x">>, <<"e", "r", "r", "o", "r">>}

SearchedLines == {<<"x">>, <<"E", "R", "R", "O", "R", " ", "x">>, <<"o", "k">>}

\* Files of up to MaxLines lines.
SearchedContents ==
  {JoinLines(l) : l \in UNION {[1..n -> SearchedLines] : n \in 1..MaxLines}}

NextSearch ==
  \/ /\ fileType = "none"
     /\ \E text \in SearchedContents : DisplayContentInPager(text, <<"a", ".", "d", "a", "t">>)
  \/ EnterSearch
  \/ \E text \in SearchTexts : SubmitSearch(text)
  \/ CancelSearch
  \/ ClosePager

SpecSearch == InitAtRest /\ [][NextSearch]_vars

\* ------------------------------------------------------------------- C31
\* The lines of the file that contain the text, whatever the case, by their
\* indices in ascending order.
RECURSIVE MatchingLines(_, _, _)
MatchingLines(lines, k, text) ==
  IF k > Len(lines) THEN <<>>
  ELSE (IF Test(ToLower(lines[k]), Literal(ToLower(text)))
        THEN <<k - 1>> ELSE <<>>)
         \o MatchingLines(lines, k + 1, text)

\* C31: after a search is submitted the match list holds the index of every
\* line that matches the pattern, whatever the case, in ascending order,
\* and no other index, also when matching lines follow one another.
C31_SearchFindsEveryLine ==
  (fileType # "none" /\ searchText # <<>> /\ ~Unterminated(searchText)) =>
    searchMatches = MatchingLines(Lines(content), 1, searchText)

\* ------------------------------------------------------ directories
\* Moving between the directories of a share.  Two modules have a
\* browseShareContents: index.js (140-318), under browseFileShares, and
\* unnamed/part_003 (58-117), under displayMainMenu.  The directory is the
\* sequence of the segments that its path joins with "/".
Browsers == {"index", "part_003"}

DirectoryNames == {"a", "b", "c"}

\* directory.split('/').slice(0, -1).join('/')
Parent(d) == SubSeq(d, 1, Len(d) - 1)

\* A share is picked from the list of shares (index.js 92-125, part_003
\* 29-52): its root is opened.
SelectShare(browser) ==
  /\ shareBrowser = "none"
  /\ shareBrowser' = browser
  /\ directory' = <<>>
  /\ UNCHANGED <<sessionVars, navVars, groupVars, pagerVars, cacheVars>>

\* A directory of the listing is selected (index.js 299-302, part_003
\* 101-104).
SelectDirectory(name) ==
  /\ shareBrowser # "none"
  /\ Len(directory) < MaxPath
  /\ directory' = Append(directory, name)
  /\ UNCHANGED shareBrowser
  /\ UNCHANGED <<sessionVars, navVars, groupVars, pagerVars, cacheVars>>

\* '.. (Go back)' is selected; it is offered when directory is not empty
\* (index.js 228-230 and 286-292, part_003 77 and 94-100).
GoBack ==
  /\ shareBrowser # "none"
  /\ directory # <<>>
  /\ IF shareBrowser = "index" \/ Len(directory) > 1
     THEN /\ directory' = Parent(directory)
          /\ UNCHANGED shareBrowser
     ELSE /\ shareBrowser' = "none"
          /\ directory' = <<>>
  /\ UNCHANGED <<sessionVars, navVars, groupVars, pagerVars, cacheVars>>

\* 'Return to file shares list' is selected (index.js 272, 293-295).
ReturnToShares ==
  /\ shareBrowser = "index"
  /\ shareBrowser' = "none"
  /\ directory' = <<>>
  /\ UNCHANGED <<sessionVars, navVars, groupVars, pagerVars, cacheVars>>

\* listFiles returns no entry (index.js 147-157, part_003 63-73): the parent
\* is opened, or the list of shares when the directory is the root.
EmptyListing ==
  /\ shareBrowser # "none"
  /\ IF directory # <<>>
     THEN /\ directory' = Parent(directory)
          /\ UNCHANGED shareBrowser
     ELSE /\ shareBrowser' = "none"
          /\ directory' = <<>>
  /\ UNCHANGED <<sessionVars, navVars, groupVars, pagerVars, cacheVars>>

\* listFiles or the prompt throws (index.js 311-314, part_003 111-114): the
\* list of shares is opened.
BrowseError ==
  /\ shareBrowser # "none"
  /\ shareBrowser' = "none"
  /\ directory' = <<>>
  /\ UNCHANGED <<sessionVars, navVars, groupVars, pagerVars, cacheVars>>

NextDir ==
  \/ \E browser \in Browsers : SelectShare(browser)
  \/ \E name \in DirectoryNames : SelectDirectory(name)
  \/ GoBack
  \/ ReturnToShares
  \/ EmptyListing
  \/ BrowseError

SpecDir == InitAtRest /\ [][NextDir]_vars

\* ------------------------------------------------------------------- C37
\* C37: 'Go back' in directory d of a share opens the parent of d in the
\* same share, the root when d has one segment; the share is left from its
\* root or through 'Return to file shares list' only.
C37_GoBackOpensParent ==
  [][/\ GoBack =>
          /\ shareBrowser' = shareBrowser
          /\ directory' = Parent(directory)
     /\ (shareBrowser # "none" /\ shareBrowser' = "none") =>
          (directory = <<>> \/ ReturnToShares)]_vars

====
